---- MODULE Spec2Model ----
(***************************************************************************)
(* Model of the transfer engine of ctpango:                                *)
(*   - MultiUploader.upload   (internal/file/uploader/multiworker.go)      *)
(*   - Downloader plan selection (package downloader, panupdate.go)        *)
(*   - Downloader.checkLoadBalancers, Execute, Cancel, SelectCacheSize     *)
(*   - RunDownload, the TaskExecutor and DownloadTaskUnit.Run              *)
(***************************************************************************)
EXTENDS Integers, Naturals, Sequences, FiniteSets, TLC

(***************************************************************************)
(* Bounds of the model                                                     *)
(***************************************************************************)
NumParts == 3
MaxUpParallel == 2
MaxSmallTotal == 6
MaxSmallBlock == 3
MaxBlocks == 2
MaxDlParallel == 4
MaxMirrors == 2
MaxCancels == 2
MaxCacheSize == 10
MaxPaths == 2
MaxFiles == 2
MaxRetry == 2
MaxUnits == 2
MaxAvgParallel == 8
MaxLoad == 6
MaxSizeMiB == 5

Parts == 1..NumParts
Mirrors == 1..MaxMirrors

VARIABLES
  \* ---- MultiUploader.upload ----
  mpc,               \* position of upload() itself
  parallel,          \* muer.config.Parallel
  uploadDone,        \* wer.uploadDone of every worker of muer.workers
  cursor,            \* read position of wer.splitUnit: "start" or "inside"
  uploadDeque,       \* lane.Deque of workers waiting for a goroutine
  wer,               \* the worker just shifted by upload(), 0 if none
  wgCount,           \* goroutines added to the round's WaitGroup and not Done
  exiting,           \* part goroutines that returned, wg.Done still to run
  gpc,               \* position of the part goroutine of every worker
  ipc,               \* position of the goroutine that calls UploadFile
  res,               \* (uploadDone, terr) locals of the part goroutine
  ctxCancelled,      \* cancel() of the part goroutine's context was called
  canceled,          \* muer.canceled is closed
  queuedAtClose,     \* the workers in uploadDeque when canceled was closed
  updateChanCap,     \* cap(muer.updateInstanceStateChan), NilChan if nil
  updateChanLen,     \* len(muer.updateInstanceStateChan)
  onceDone,          \* muer.closeCanceledOnce has run
  closeCount,        \* number of close(muer.canceled) executed
  uperr,             \* named result uperr
  result,            \* value returned by upload(), "running" before
  precreateCalls,    \* calls of multiUpload.Precreate
  precreateRet,      \* what Precreate returned, "none" before
  uploadCalled,      \* multiUpload.UploadFile has been called
  termCount,         \* UploadFile calls that returned a terminal error
  commitCalls        \* calls of multiUpload.CommitFile

upVars == <<mpc, parallel, uploadDone, cursor, uploadDeque, wer, wgCount,
            exiting, gpc,
            ipc, res, ctxCancelled, canceled, queuedAtClose, updateChanCap,
            updateChanLen, onceDone, closeCount, uperr,
            result, precreateCalls, precreateRet, uploadCalled, termCount,
            commitCalls>>

VARIABLES
  \* ---- Downloader: choice of the plan ----
  dpc,               \* position in Downloader.Execute / of the caller
  viaExecute,        \* TRUE in Execute, FALSE for a direct call of the method
  totalSize,         \* status.TotalSize()
  cfgMaxParallel,    \* der.config.MaxParallel
  cfgBlockSize,      \* der.config.BlockSize
  cfgMode,           \* der.config.Mode
  single,            \* argument single
  biiRanges,         \* bii.Ranges
  dlParallel,        \* parallel, as selected or as passed
  blockSize,         \* result blockSize
  initErr,           \* result initErr
  gen,               \* status.RangeListGen()
  loopI,             \* i of the allocation loop of Execute
  drawn,             \* the ranges GenRange has returned so far, in order
  plan               \* bii.Ranges as Execute's allocation leaves it

dlVars == <<dpc, viaExecute, totalSize, cfgMaxParallel, cfgBlockSize, cfgMode,
            single, biiRanges, dlParallel, blockSize, initErr, gen, loopI,
            drawn, plan>>

VARIABLES
  \* ---- Downloader.Execute and DownloadTaskUnit.download ----
  epc,               \* position of Execute, "returned" after its return
  fileSize,          \* der.fileInfo.FileSize
  mirrors,           \* len(der.loadBalansers)
  lbNext,            \* the mirror the loop of checkLoadBalancers spawns next
  lbpc,              \* position of the probe goroutine of every mirror
  lbOut,             \* what durlCheckFunc returned for every mirror
  lbSeen,            \* len(loadBalancerResponses) read by a mirror's append
  lbArr,             \* backing array of loadBalancerResponses
  lbLen,             \* len(loadBalancerResponses)
  diskState,         \* the InstanceState file, "absent" or its content
  stateCreated,      \* InstanceState files created during the run
  isInstance,        \* bii != nil after instanceState.Get()
  wk,                \* k of the worker-construction loop
  urlFailed,         \* the plan indices whose download URL call failed
  monWorkers,        \* the workers appended to the Monitor: id and range
  wst,               \* status of every worker of the Monitor
  respawned,         \* the workers the Monitor has respawned
  onPlan,            \* the workers still on the range Execute gave them
  okRanges,          \* plan indices whose worker reached success
  reloadWorker,      \* what SetReloadWorker was called with, "unset" before
  cancelFuncSet,     \* der.monitorCancelFunc is set
  cancelsLeft,       \* how often the caller is still going to call Cancel
  ctxDone,           \* the Monitor's context is cancelled
  cancelMid,         \* the cancellation arrived while a worker was running
  monitorErr,        \* monitor.Err()
  execErr,           \* what Execute returned, "running" before
  removeCalls,       \* calls of removeInstanceState
  events,            \* the events Execute has triggered, in order
  dlRet,             \* what download() returned, "running" before
  noCheck,           \* dtu.NoCheck
  checkErr,          \* what CheckFileValid returned, "none" if not called
  succeed            \* result.Succeed of DownloadTaskUnit.Run

exVars == <<epc, fileSize, mirrors, lbNext, lbpc, lbOut, lbSeen, lbArr, lbLen,
            diskState, stateCreated, isInstance, wk, urlFailed, monWorkers,
            wst, respawned, onPlan, okRanges, reloadWorker, cancelFuncSet,
            cancelsLeft, ctxDone, cancelMid, monitorErr, execErr, removeCalls,
            events, dlRet, noCheck, checkErr, succeed>>

VARIABLES
  \* ---- Downloader.SelectCacheSize ----
  cspc,              \* "call" before the call, "done" after it
  confCacheSize,     \* the argument confCacheSize
  argBlockSize,      \* the argument blockSize
  cacheSize          \* the result

csVars == <<cspc, confCacheSize, argBlockSize, cacheSize>>

VARIABLES
  \* ---- RunDownload, the TaskExecutor and DownloadTaskUnit.Run ----
  tpc,               \* position of RunDownload and of executor.Execute
  optMaxRetry,       \* options.MaxRetry
  optOverwrite,      \* options.IsOverwrite
  optNoCheck,        \* options.NoCheck
  paths,             \* the paths still to append; TRUE stands for a folder
  units,             \* every unit given to Append, in the order of the calls
  lastId,            \* the id Append handed out last
  taskDeque,         \* the executor's queue, as indexes into units
  failedDeque,       \* executor.FailedDeque(), as indexes into units
  cur,               \* the unit the executor has taken, 0 for none
  runResult          \* the result of the last Run

tkVars == <<tpc, optMaxRetry, optOverwrite, optNoCheck, paths, units, lastId,
            taskDeque, failedDeque, cur, runResult>>

VARIABLES
  \* ---- AverageParallel and getBlockSize ----
  npc,               \* which function is called, and whether it has returned
  optParallel,       \* options.Parallel, the argument parallel
  loadCount,         \* the argument downloadLoad
  avgParallel,       \* what AverageParallel returned
  upFileSize,        \* the argument fileSize, as mib * MiB + rest
  upBlockSize        \* what getBlockSize returned

nmVars == <<npc, optParallel, loadCount, avgParallel, upFileSize,
            upBlockSize>>

vars == <<upVars, dlVars, exVars, csVars, tkVars, nmVars>>

(***************************************************************************)
(* MultiUploader.upload                                                    *)
(***************************************************************************)

\* outcomes of one UploadFile call: (true, nil), (false, nil), a plain
\* error, a *MultiError with Terminated and Err set, one with Err == nil
UploadResults == {"done", "notdone", "retry", "term", "termNil"}

\* the error carried by a terminal MultiError (me.Err)
MeErr(r) == IF r = "term" THEN "ErrTerminal" ELSE "nil"

\* the workers of muer.workers in slice order that satisfy the filter
RECURSIVE SelectWorkers(_, _)
SelectWorkers(n, keep) ==
  IF n = 0 THEN <<>>
  ELSE LET rest == SelectWorkers(n - 1, keep)
       IN IF n \in keep THEN Append(rest, n) ELSE rest

Range(q) == {q[i] : i \in 1..Len(q)}

InDeque(p) == \E i \in 1..Len(uploadDeque) : uploadDeque[i] = p

\* line 55: only workers that are not done are queued
NeedsUploadAll == Parts
NeedsUpload == {w \in Parts : ~uploadDone[w]}

\* lines 54-58
InitialDequeTwice ==
  SelectWorkers(NumParts, NeedsUpload) \o SelectWorkers(NumParts, NeedsUpload)
InitialDeque == SelectWorkers(NumParts, NeedsUpload)

\* lines 45-47: where upload() goes after Precreate returned err
AfterPrecreateIgnoreErr(err) == "shift"
AfterPrecreate(err) == IF err # "nil" THEN "done" ELSE "shift"

\* lines 140-143
AllSuccessAny == \E w \in Parts : uploadDone[w]
AllSuccess == \A w \in Parts : uploadDone[w]

\* line 109: wer.splitUnit.Seek(0, os.SEEK_SET)
SeekStartForgotten(p) == cursor
SeekStart(p) == [cursor EXCEPT ![p] = "start"]

\* lines 100-102: closeCanceledOnce.Do(func() { close(muer.canceled) })
CloseCanceledEveryTime ==
  /\ canceled' = TRUE
  /\ closeCount' = closeCount + 1
  /\ onceDone' = TRUE
CloseCanceledOnce ==
  IF onceDone
  THEN UNCHANGED <<canceled, closeCount, onceDone>>
  ELSE /\ canceled' = TRUE
       /\ closeCount' = closeCount + 1
       /\ onceDone' = TRUE

\* lines 89-91 and 96: cancel() of the goroutine's own context
CancelCtx(p) == [ctxCancelled EXCEPT ![p] = TRUE]

\* a nil muer.updateInstanceStateChan (line 116)
NilChan == -1

UpInitWith(caps) ==
  /\ mpc = "precreate"
  /\ parallel \in 1..MaxUpParallel
  /\ uploadDone \in [Parts -> BOOLEAN]
  /\ cursor = [p \in Parts |-> "start"]
  /\ uploadDeque = <<>>
  /\ wer = 0
  /\ wgCount = 0
  /\ exiting = 0
  /\ gpc = [p \in Parts |-> "none"]
  /\ ipc = [p \in Parts |-> "none"]
  /\ res = [p \in Parts |-> "none"]
  /\ ctxCancelled = [p \in Parts |-> FALSE]
  /\ canceled = FALSE
  /\ queuedAtClose = {}
  /\ updateChanCap \in caps
  /\ updateChanLen = 0
  /\ onceDone = FALSE
  /\ closeCount = 0
  /\ uperr = "nil"
  /\ result = "running"
  /\ precreateCalls = 0
  /\ precreateRet = "none"
  /\ uploadCalled = FALSE
  /\ termCount = 0
  /\ commitCalls = 0

\* upload() of a MultiUploader that has no updateInstanceStateChan
UpInit == UpInitWith({NilChan})

\* lines 44-58: Precreate, then the queue of the workers still to upload
Precreate ==
  /\ mpc = "precreate"
  /\ precreateCalls' = precreateCalls + 1
  /\ \E err \in {"nil", "ErrPrecreate"} :
       /\ precreateRet' = err
       /\ mpc' = AfterPrecreate(err)
       /\ IF mpc' = "done"
          THEN /\ result' = err
               /\ UNCHANGED uploadDeque
          ELSE /\ uploadDeque' = InitialDeque
               /\ UNCHANGED result
  /\ UNCHANGED <<parallel, uploadDone, cursor, wer, wgCount, exiting, gpc,
                 ipc, res, ctxCancelled, canceled,
                 queuedAtClose,
                 updateChanCap, updateChanLen, onceDone, closeCount,
                 uperr, uploadCalled, termCount, commitCalls>>
  /\ UNCHANGED <<dlVars, exVars, csVars, tkVars, nmVars>>

\* lines 63-68: e := uploadDeque.Shift()
Shift ==
  /\ mpc = "shift"
  /\ IF Len(uploadDeque) = 0
     THEN /\ mpc' = "wait"
          /\ UNCHANGED <<uploadDeque, wer>>
     ELSE /\ wer' = Head(uploadDeque)
          /\ uploadDeque' = Tail(uploadDeque)
          /\ mpc' = "add"
  /\ UNCHANGED <<parallel, uploadDone, cursor, wgCount, exiting, gpc, ipc,
                 res, ctxCancelled, canceled,
                 queuedAtClose,
                 updateChanCap, updateChanLen, onceDone, closeCount, uperr,
                 result, precreateCalls, precreateRet,
                 uploadCalled, termCount, commitCalls>>
  /\ UNCHANGED <<dlVars, exVars, csVars, tkVars, nmVars>>

\* waitgroup.AddDelta: takes a slot of the gate of size config.Parallel
GateOpen == wgCount < parallel

\* lines 69-87: wg.AddDelta(), the part goroutine starts, makes its context
\* and starts the goroutine that will call UploadFile
Spawn ==
  /\ mpc = "add"
  /\ GateOpen
  /\ wgCount' = wgCount + 1
  /\ gpc' = [gpc EXCEPT ![wer] = "select"]
  /\ ipc' = [ipc EXCEPT ![wer] = "begin"]
  /\ res' = [res EXCEPT ![wer] = "none"]
  /\ ctxCancelled' = [ctxCancelled EXCEPT ![wer] = FALSE]
  /\ wer' = 0
  /\ mpc' = "shift"
  /\ UNCHANGED <<parallel, uploadDone, cursor, uploadDeque, exiting, canceled,
                 queuedAtClose,
                 updateChanCap, updateChanLen,
                 onceDone, closeCount, uperr, result, precreateCalls, precreateRet,
                 uploadCalled, termCount, commitCalls>>
  /\ UNCHANGED <<dlVars, exVars, csVars, tkVars, nmVars>>

\* what close(doneChan) leaves for the part goroutine p: its select reads
\* doneChan only while it has not returned
DoneChanClosed(p) == IF gpc[p] = "select" THEN "closed" ELSE "none"

\* lines 80-85: the call of UploadFile, or uploadDone = true without a call
InnerBegin(p) ==
  /\ ipc[p] = "begin"
  /\ IF ~uploadDone[p]
     THEN /\ ipc' = [ipc EXCEPT ![p] = "uploading"]
          /\ uploadCalled' = TRUE
          /\ UNCHANGED res
     ELSE /\ ipc' = [ipc EXCEPT ![p] = DoneChanClosed(p)]
          /\ res' = [res EXCEPT ![p] =
                       IF gpc[p] = "select" THEN "done" ELSE "none"]
          /\ UNCHANGED uploadCalled
  /\ UNCHANGED <<mpc, parallel, uploadDone, cursor, uploadDeque, wer, wgCount,
                 exiting, gpc, ctxCancelled, canceled,
                 queuedAtClose,
                 updateChanCap, updateChanLen, onceDone, closeCount,
                 uperr, result, precreateCalls, precreateRet, termCount,
                 commitCalls>>
  /\ UNCHANGED <<dlVars, exVars, csVars, tkVars, nmVars>>

\* UploadFile reads the part through wer.splitUnit
UploadRead(p) ==
  /\ ipc[p] = "uploading"
  /\ cursor[p] = "start"
  /\ cursor' = [cursor EXCEPT ![p] = "inside"]
  /\ UNCHANGED <<mpc, parallel, uploadDone, uploadDeque, wer, wgCount,
                 exiting, gpc, ipc, res, ctxCancelled, canceled,
                 queuedAtClose,
                 updateChanCap, updateChanLen, onceDone,
                 closeCount, uperr, result, precreateCalls, precreateRet,
                 uploadCalled, termCount, commitCalls>>
  /\ UNCHANGED <<dlVars, exVars, csVars, tkVars, nmVars>>

\* lines 82 and 86: UploadFile returns, close(doneChan); the results are
\* locals that nothing reads once the part goroutine has returned
UploadReturn(p) ==
  /\ ipc[p] = "uploading"
  /\ \E r \in UploadResults :
       /\ res' = [res EXCEPT ![p] = IF gpc[p] = "select" THEN r ELSE "none"]
       /\ termCount' = IF r \in {"term", "termNil"}
                       THEN termCount + 1 ELSE termCount
  /\ ipc' = [ipc EXCEPT ![p] = DoneChanClosed(p)]
  /\ UNCHANGED <<mpc, parallel, uploadDone, cursor, uploadDeque, wer, wgCount,
                 exiting, gpc, ctxCancelled, canceled,
                 queuedAtClose,
                 updateChanCap, updateChanLen, onceDone, closeCount,
                 uperr, result, precreateCalls, precreateRet, uploadCalled,
                 commitCalls>>
  /\ UNCHANGED <<dlVars, exVars, csVars, tkVars, nmVars>>

\* line 89: the case <-muer.canceled can be taken once the channel is closed
CanceledReadyNever == FALSE
CanceledReady == canceled

\* lines 89-91: case <-muer.canceled
SelectCanceled(p) ==
  /\ gpc[p] = "select"
  /\ CanceledReady
  /\ ctxCancelled' = CancelCtx(p)
  /\ gpc' = [gpc EXCEPT ![p] = "none"]
  /\ exiting' = exiting + 1
  /\ ipc' = [ipc EXCEPT ![p] = IF ipc[p] = "closed" THEN "none" ELSE ipc[p]]
  /\ res' = [res EXCEPT ![p] = "none"]
  /\ UNCHANGED <<mpc, parallel, uploadDone, cursor, uploadDeque, wer, wgCount,
                 canceled, queuedAtClose,
                 updateChanCap, updateChanLen, onceDone, closeCount, uperr, result,
                 precreateCalls, precreateRet,
                 uploadCalled, termCount, commitCalls>>
  /\ UNCHANGED <<dlVars, exVars, csVars, tkVars, nmVars>>

\* line 116: the test that guards the send on updateInstanceStateChan
NotifyRoom == updateChanCap # NilChan /\ updateChanLen < updateChanCap

\* lines 92-118: case <-doneChan, and what follows it up to the test of
\* line 116; with observe set the queue at the moment of
\* close(muer.canceled) is written down
SelectDoneWith(p, observe) ==
  /\ gpc[p] = "select"
  /\ ipc[p] = "closed"
  /\ ctxCancelled' = CancelCtx(p)
  /\ ipc' = [ipc EXCEPT ![p] = "none"]
  /\ res' = [res EXCEPT ![p] = "none"]
  /\ IF res[p] \in {"term", "termNil"}
     THEN /\ CloseCanceledOnce
          /\ uperr' = MeErr(res[p])
          /\ UNCHANGED <<cursor, uploadDeque, uploadDone>>
     ELSE IF res[p] = "retry"
     THEN /\ cursor' = SeekStart(p)
          /\ uploadDeque' = Append(uploadDeque, p)
          /\ UNCHANGED <<uploadDone, canceled, onceDone, closeCount, uperr>>
     ELSE /\ uploadDone' = [uploadDone EXCEPT ![p] = (res[p] = "done")]
          /\ UNCHANGED <<cursor, uploadDeque, canceled, onceDone, closeCount,
                         uperr>>
  /\ IF res[p] \in {"done", "notdone"} /\ NotifyRoom
     THEN /\ gpc' = [gpc EXCEPT ![p] = "send"]
          /\ UNCHANGED exiting
     ELSE /\ gpc' = [gpc EXCEPT ![p] = "none"]
          /\ exiting' = exiting + 1
  /\ queuedAtClose' = IF observe /\ canceled' /\ ~canceled
                      THEN Range(uploadDeque)
                      ELSE queuedAtClose
  /\ UNCHANGED <<mpc, parallel, wer, wgCount, updateChanCap, updateChanLen,
                 result, precreateCalls, precreateRet, uploadCalled,
                 termCount, commitCalls>>
  /\ UNCHANGED <<dlVars, exVars, csVars, tkVars, nmVars>>

SelectDone(p) == SelectDoneWith(p, FALSE)

SelectDoneObserved(p) == SelectDoneWith(p, TRUE)

\* line 117: the send on updateInstanceStateChan goes through when the
\* buffer has room; nothing in this package receives from the channel
NotifySend(p) ==
  /\ gpc[p] = "send"
  /\ updateChanLen < updateChanCap
  /\ updateChanLen' = updateChanLen + 1
  /\ gpc' = [gpc EXCEPT ![p] = "none"]
  /\ exiting' = exiting + 1
  /\ UNCHANGED <<mpc, parallel, uploadDone, cursor, uploadDeque, wer, wgCount,
                 ipc, res, ctxCancelled, canceled, queuedAtClose,
                 updateChanCap, onceDone, closeCount, uperr, result,
                 precreateCalls, precreateRet, uploadCalled, termCount,
                 commitCalls>>
  /\ UNCHANGED <<dlVars, exVars, csVars, tkVars, nmVars>>

\* the owner of the channel takes a notification out of it
NotifyReceive ==
  /\ updateChanLen > 0
  /\ updateChanLen' = updateChanLen - 1
  /\ UNCHANGED <<mpc, parallel, uploadDone, cursor, uploadDeque, wer, wgCount,
                 exiting, gpc, ipc, res, ctxCancelled, canceled,
                 queuedAtClose, updateChanCap, onceDone, closeCount, uperr,
                 result, precreateCalls, precreateRet, uploadCalled,
                 termCount, commitCalls>>
  /\ UNCHANGED <<dlVars, exVars, csVars, tkVars, nmVars>>

\* line 71: defer wg.Done()
GoroutineExit ==
  /\ exiting > 0
  /\ exiting' = exiting - 1
  /\ wgCount' = wgCount - 1
  /\ UNCHANGED <<mpc, parallel, uploadDone, cursor, uploadDeque, wer, gpc,
                 ipc, res, ctxCancelled, canceled,
                 queuedAtClose,
                 updateChanCap, updateChanLen, onceDone, closeCount,
                 uperr, result, precreateCalls, precreateRet,
                 uploadCalled, termCount, commitCalls>>
  /\ UNCHANGED <<dlVars, exVars, csVars, tkVars, nmVars>>

\* lines 121-127: wg.Wait(), then another round unless the queue is empty
Wait ==
  /\ mpc = "wait"
  /\ wgCount = 0
  /\ mpc' = IF Len(uploadDeque) = 0 THEN "final" ELSE "shift"
  /\ UNCHANGED <<parallel, uploadDone, cursor, uploadDeque, wer, wgCount,
                 exiting, gpc, ipc, res, ctxCancelled, canceled,
                 queuedAtClose,
                 updateChanCap, updateChanLen, onceDone,
                 closeCount, uperr, result, precreateCalls, precreateRet,
                 uploadCalled, termCount, commitCalls>>
  /\ UNCHANGED <<dlVars, exVars, csVars, tkVars, nmVars>>

\* lines 129-154 up to the call of CommitFile
Final ==
  /\ mpc = "final"
  /\ IF canceled
     THEN /\ result' = IF uperr # "nil" THEN uperr ELSE "Canceled"
          /\ mpc' = "done"
     ELSE IF AllSuccess
     THEN /\ mpc' = "commit"
          /\ UNCHANGED result
     ELSE /\ result' = uperr
          /\ mpc' = "done"
  /\ UNCHANGED <<parallel, uploadDone, cursor, uploadDeque, wer, wgCount,
                 exiting, gpc, ipc, res, ctxCancelled, canceled,
                 queuedAtClose,
                 updateChanCap, updateChanLen, onceDone,
                 closeCount, uperr, precreateCalls, precreateRet,
                 uploadCalled, termCount, commitCalls>>
  /\ UNCHANGED <<dlVars, exVars, csVars, tkVars, nmVars>>

\* lines 145-154: CommitFile and the return
Commit ==
  /\ mpc = "commit"
  /\ commitCalls' = commitCalls + 1
  /\ \E e \in {"nil", "ErrCommit"} :
       result' = IF e # "nil" THEN e ELSE uperr
  /\ mpc' = "done"
  /\ UNCHANGED <<parallel, uploadDone, cursor, uploadDeque, wer, wgCount,
                 exiting, gpc, ipc, res, ctxCancelled, canceled,
                 queuedAtClose,
                 updateChanCap, updateChanLen, onceDone,
                 closeCount, uperr, precreateCalls, precreateRet,
                 uploadCalled, termCount>>
  /\ UNCHANGED <<dlVars, exVars, csVars, tkVars, nmVars>>

UpNext ==
  \/ Precreate
  \/ Shift
  \/ Spawn
  \/ \E p \in Parts : InnerBegin(p)
  \/ \E p \in Parts : UploadRead(p)
  \/ \E p \in Parts : UploadReturn(p)
  \/ \E p \in Parts : SelectCanceled(p)
  \/ \E p \in Parts : SelectDone(p)
  \/ GoroutineExit
  \/ Wait
  \/ Final
  \/ Commit

\* the steps of upload() and of the notification on updateInstanceStateChan
UpNotifyNext ==
  \/ UpNext
  \/ \E p \in Parts : NotifySend(p)
  \/ NotifyReceive

\* the same steps, with the queue at the close of canceled written down
UpObservedNext ==
  \/ Precreate
  \/ Shift
  \/ Spawn
  \/ \E p \in Parts : InnerBegin(p)
  \/ \E p \in Parts : UploadRead(p)
  \/ \E p \in Parts : UploadReturn(p)
  \/ \E p \in Parts : SelectCanceled(p)
  \/ \E p \in Parts : SelectDoneObserved(p)
  \/ GoroutineExit
  \/ Wait
  \/ Final
  \/ Commit

\* the uploader while the model follows the downloader
UpIdle ==
  /\ mpc = "idle"
  /\ parallel = 1
  /\ uploadDone = [p \in Parts |-> FALSE]
  /\ cursor = [p \in Parts |-> "start"]
  /\ uploadDeque = <<>>
  /\ wer = 0
  /\ wgCount = 0
  /\ exiting = 0
  /\ gpc = [p \in Parts |-> "none"]
  /\ ipc = [p \in Parts |-> "none"]
  /\ res = [p \in Parts |-> "none"]
  /\ ctxCancelled = [p \in Parts |-> FALSE]
  /\ canceled = FALSE
  /\ queuedAtClose = {}
  /\ updateChanCap = NilChan
  /\ updateChanLen = 0
  /\ onceDone = FALSE
  /\ closeCount = 0
  /\ uperr = "nil"
  /\ result = "running"
  /\ precreateCalls = 0
  /\ precreateRet = "none"
  /\ uploadCalled = FALSE
  /\ termCount = 0
  /\ commitCalls = 0

(***************************************************************************)
(* Downloader: SelectParallel, SelectBlockSizeAndInitRangeGen and the      *)
(* allocation of the ranges (package downloader); the RangeListGen of      *)
(* package transfer                                                        *)
(***************************************************************************)

\* var MinParallelSize of package downloader (128 KiB)
MinParallelSize == 131072

Min(a, b) == IF a < b THEN a ELSE b

NoGen == [mode |-> "none"]

\* transfer.NewRangeListGenDefault(totalSize, begin, count, parallel)
NewRangeListGenDefault(total, begin, count, par) ==
  [mode |-> "Default", total |-> total, begin |-> begin, blockSize |-> 0,
   parallel |-> par, count |-> count]

\* transfer.NewRangeListGenBlockSize(totalSize, begin, blockSize)
NewRangeListGenBlockSize(total, begin, bs) ==
  [mode |-> "BlockSize", total |-> total, begin |-> begin, blockSize |-> bs,
   parallel |-> 0, count |-> 0]

\* RangeListGen.LoadBlockSize: Default mode divides the total evenly
LoadBlockSize(g) ==
  IF g.mode = "Default" /\ g.blockSize <= 0
  THEN g.total \div g.parallel
  ELSE g.blockSize

\* RangeListGen.GenRange: the generator after the call and the range it
\* returns, <<>> for nil
GenRange(g) ==
  IF g.begin >= g.total
  THEN [gen |-> g, r |-> <<>>]
  ELSE IF g.mode = "Default"
  THEN LET bs == LoadBlockSize(g)
           end == IF g.count + 1 >= g.parallel THEN g.total
                  ELSE g.begin + bs
       IN [gen |-> [g EXCEPT !.blockSize = bs, !.count = g.count + 1,
                               !.begin = end],
           r |-> <<[Begin |-> g.begin, End |-> end]>>]
  ELSE LET bs == g.blockSize
           end == Min(g.begin + bs, g.total)
       IN [gen |-> [g EXCEPT !.blockSize = bs, !.count = g.count + 1,
                               !.begin = end],
           r |-> <<[Begin |-> g.begin, End |-> end]>>]

\* lines 642-659
SelectParallelNoClamp(sgl, maxParallel, total, instanceRangeList) ==
  LET isRange == Len(instanceRangeList) > 0
      par == IF sgl THEN 1
             ELSE IF isRange THEN Len(instanceRangeList)
             ELSE maxParallel
  IN IF par < 1 THEN 1 ELSE par
SelectParallel(sgl, maxParallel, total, instanceRangeList) ==
  LET isRange == Len(instanceRangeList) > 0
      par == IF sgl THEN 1
             ELSE IF isRange THEN Len(instanceRangeList)
             ELSE IF maxParallel > total \div MinParallelSize
                  THEN total \div MinParallelSize + 1
                  ELSE maxParallel
  IN IF par < 1 THEN 1 ELSE par

\* lines 675-680: the smaller of config.BlockSize and totalSize/parallel + 1
ChooseBlockSizeLarger(total, par, confBlockSize) ==
  LET b2 == total \div par + 1
  IN IF b2 < confBlockSize THEN confBlockSize ELSE b2
ChooseBlockSize(total, par, confBlockSize) ==
  LET b2 == total \div par + 1
  IN IF b2 > confBlockSize THEN confBlockSize ELSE b2

\* lines 662-692: blockSize, initErr and the generator left in status
SelectBlockSizeAndInitRangeGen(sgl, statusGen, total, par, mode, confBlockSize) ==
  IF sgl
  THEN [blockSize |-> -1, initErr |-> "nil", gen |-> statusGen]
  ELSE IF statusGen = NoGen
  THEN IF mode = "Default"
       THEN LET g == NewRangeListGenDefault(total, 0, 0, par)
            IN [blockSize |-> LoadBlockSize(g), initErr |-> "nil",
                gen |-> [g EXCEPT !.blockSize = LoadBlockSize(g)]]
       ELSE IF mode = "BlockSize"
       THEN LET bs == ChooseBlockSize(total, par, confBlockSize)
            IN [blockSize |-> bs, initErr |-> "nil",
                gen |-> NewRangeListGenBlockSize(total, 0, bs)]
       ELSE [blockSize |-> 0, initErr |-> "ErrUnknownRangeGenMode",
             gen |-> statusGen]
  ELSE [blockSize |-> LoadBlockSize(statusGen), initErr |-> "nil",
        gen |-> statusGen]

\* a 10 MiB file downloaded with config.BlockSize = 4 MiB
MiB == 1024 * 1024
ExampleTotal == 10 * MiB
ExampleBlock == 4 * MiB

\* the file sizes and block sizes the model draws
TotalSizes ==
  (0..MaxSmallTotal)
    \cup {k * MinParallelSize + d : k \in 1..MaxBlocks, d \in {-1, 0, 1}}
    \cup {ExampleTotal}
BlockSizes ==
  (1..MaxSmallBlock)
    \cup {MinParallelSize \div 2, MinParallelSize, 2 * MinParallelSize + 1}
    \cup {ExampleBlock}

\* a saved state: the first block is still to download, the generator has
\* handed it out
SavedStates(total, bs) ==
  IF bs < total
  THEN {[ranges |-> <<[Begin |-> 0, End |-> bs]>>,
         gen |-> [NewRangeListGenBlockSize(total, bs, bs) EXCEPT !.count = 1]]}
  ELSE {}

DlInit ==
  /\ dpc = "start"
  /\ viaExecute \in BOOLEAN
  /\ totalSize \in TotalSizes
  /\ cfgBlockSize \in BlockSizes
  /\ (totalSize <= MaxSmallTotal \/ cfgBlockSize > MaxSmallBlock)
  /\ cfgMaxParallel \in 1..MaxDlParallel
  /\ cfgMode \in {"Default", "BlockSize", "Unknown"}
  /\ single = FALSE
  /\ \E st \in {[ranges |-> <<>>, gen |-> NoGen]}
                 \cup SavedStates(totalSize, cfgBlockSize) :
       /\ biiRanges = st.ranges
       /\ gen = st.gen
  /\ dlParallel = 0
  /\ blockSize = 0
  /\ initErr = "nil"
  /\ loopI = 0
  /\ drawn = <<>>
  /\ plan = <<>>

\* the range lists of a saved state, by their number of ranges
SavedRangeLists ==
  {[i \in 1..n |-> [Begin |-> i - 1, End |-> i]] : n \in 0..MaxDlParallel}

\* what a configuration may hold as MaxParallel
MaxParallels == -1..MaxDlParallel

\* Execute is about to call SelectParallel (line 837) with any setting
ParallelInit ==
  /\ dpc = "start"
  /\ viaExecute = TRUE
  /\ totalSize \in TotalSizes
  /\ cfgBlockSize = 1
  /\ cfgMaxParallel \in MaxParallels
  /\ cfgMode = "Default"
  /\ single \in BOOLEAN
  /\ biiRanges \in SavedRangeLists
  /\ gen = NoGen
  /\ dlParallel = 0
  /\ blockSize = 0
  /\ initErr = "nil"
  /\ loopI = 0
  /\ drawn = <<>>
  /\ plan = <<>>

\* the downloader while the model follows the uploader
DlIdle ==
  /\ dpc = "idle"
  /\ viaExecute = FALSE
  /\ totalSize = 0
  /\ cfgBlockSize = 1
  /\ cfgMaxParallel = 1
  /\ cfgMode = "Default"
  /\ single = FALSE
  /\ biiRanges = <<>>
  /\ gen = NoGen
  /\ dlParallel = 0
  /\ blockSize = 0
  /\ initErr = "nil"
  /\ loopI = 0
  /\ drawn = <<>>
  /\ plan = <<>>

\* line 837 of Execute: parallel := der.SelectParallel(single, ...)
ExecSelectParallel ==
  /\ dpc = "start"
  /\ viaExecute
  /\ dlParallel' = SelectParallel(single, cfgMaxParallel, totalSize, biiRanges)
  /\ dpc' = "block"
  /\ UNCHANGED <<viaExecute, totalSize, cfgMaxParallel, cfgBlockSize, cfgMode,
                 single, biiRanges, blockSize, initErr, gen, loopI, drawn,
                 plan>>
  /\ UNCHANGED <<upVars, exVars, csVars, tkVars, nmVars>>

\* a caller of the exported method passes single and parallel itself
CallerPassesParallel ==
  /\ dpc = "start"
  /\ ~viaExecute
  /\ \E sgl \in BOOLEAN, par \in 1..MaxDlParallel :
       /\ single' = sgl
       /\ dlParallel' = par
  /\ dpc' = "block"
  /\ UNCHANGED <<viaExecute, totalSize, cfgMaxParallel, cfgBlockSize, cfgMode,
                 biiRanges, blockSize, initErr, gen, loopI, drawn, plan>>
  /\ UNCHANGED <<upVars, exVars, csVars, tkVars, nmVars>>

\* line 861: isRange, the saved ranges are the plan
IsRangeNever(ranges) == FALSE
IsRange(ranges) == Len(ranges) > 0

\* lines 838-841 and 861-868: SelectBlockSizeAndInitRangeGen, then the ranges
\* of a saved state are the plan, or the plan starts empty
DoSelectBlockSize ==
  /\ dpc = "block"
  /\ LET out == SelectBlockSizeAndInitRangeGen(single, gen, totalSize,
                                               dlParallel, cfgMode,
                                               cfgBlockSize)
     IN /\ blockSize' = out.blockSize
        /\ initErr' = out.initErr
        /\ gen' = out.gen
        /\ dpc' = IF out.initErr # "nil" \/ single THEN "done"
                  ELSE IF IsRange(biiRanges) THEN "tail"
                  ELSE "alloc"
  /\ loopI' = 0
  /\ drawn' = biiRanges
  /\ plan' = IF IsRange(biiRanges) THEN biiRanges ELSE <<>>
  /\ UNCHANGED <<viaExecute, totalSize, cfgMaxParallel, cfgBlockSize, cfgMode,
                 single, biiRanges, dlParallel>>
  /\ UNCHANGED <<upVars, exVars, csVars, tkVars, nmVars>>

\* lines 865 and 870: cap(bii.Ranges), the turns of the allocation loop
AllocCapShort(par) == par - 1
AllocCap(par) == par

\* lines 869-876: one turn of the loop that fills bii.Ranges, at most
\* cap(bii.Ranges) = parallel turns
AllocRange ==
  /\ dpc = "alloc"
  /\ IF loopI < AllocCap(dlParallel)
     THEN LET out == GenRange(gen)
          IN /\ gen' = out.gen
             /\ drawn' = drawn \o out.r
             /\ plan' = plan \o out.r
             /\ IF out.r = <<>>
                THEN /\ dpc' = "tail"
                     /\ UNCHANGED loopI
                ELSE /\ loopI' = loopI + 1
                     /\ UNCHANGED dpc
     ELSE /\ dpc' = "tail"
          /\ UNCHANGED <<gen, drawn, loopI, plan>>
  /\ UNCHANGED <<viaExecute, totalSize, cfgMaxParallel, cfgBlockSize, cfgMode,
                 single, biiRanges, dlParallel, blockSize, initErr>>
  /\ UNCHANGED <<upVars, exVars, csVars, tkVars, nmVars>>

\* the ranges left in the generator are drawn while the transfer runs, until
\* GenRange returns nil
TailRange ==
  /\ dpc = "tail"
  /\ LET out == GenRange(gen)
     IN /\ gen' = out.gen
        /\ drawn' = drawn \o out.r
        /\ dpc' = IF out.r = <<>> THEN "done" ELSE "tail"
  /\ UNCHANGED <<viaExecute, totalSize, cfgMaxParallel, cfgBlockSize, cfgMode,
                 single, biiRanges, dlParallel, blockSize, initErr, loopI,
                 plan>>
  /\ UNCHANGED <<upVars, exVars, csVars, tkVars, nmVars>>

DlNext ==
  \/ ExecSelectParallel
  \/ CallerPassesParallel
  \/ DoSelectBlockSize
  \/ AllocRange
  \/ TailRange

(***************************************************************************)
(* Downloader.checkLoadBalancers (package downloader)                      *)
(***************************************************************************)

\* line 744: waitgroup.NewWaitGroup(10)
LbGateSize == 10

\* subResp.StatusCode / 100
StatusClasses == 1..5

\* what durlCheckFunc returns: a transport error, or a response with its
\* status class, whether its content length equals der.fileInfo.FileSize and
\* whether subResp.Request is set
NoOutcome == [err |-> FALSE, class |-> 0, lenOk |-> FALSE, hasReq |-> FALSE]
ProbeOutcomes ==
  {[err |-> TRUE, class |-> 0, lenOk |-> FALSE, hasReq |-> FALSE]}
    \cup [err : {FALSE}, class : StatusClasses, lenOk : BOOLEAN,
          hasReq : BOOLEAN]

\* lines 756-779: the checks a probe passes before handleLoadBalancer
ProbeAccepts(o) == ~o.err /\ o.class \notin {4, 5} /\ o.lenOk

\* the probe goroutines that have started and not returned
ProbesRunning == {m \in Mirrors : lbpc[m] \notin {"none", "done"}}

\* loadBalancerResponses as a list of mirrors, 0 for the primary
LbList == [i \in 1..lbLen |-> lbArr[i]]

\* everything of the download run that its first steps do not draw
ExBlank ==
  /\ lbNext = 1
  /\ lbpc = [m \in Mirrors |-> "none"]
  /\ lbOut = [m \in Mirrors |-> NoOutcome]
  /\ lbSeen = [m \in Mirrors |-> 0]
  /\ lbArr = [i \in 1..(MaxMirrors + 1) |-> -1]
  /\ lbLen = 0
  /\ stateCreated = 0
  /\ isInstance = FALSE
  /\ wk = 0
  /\ urlFailed = {}
  /\ monWorkers = <<>>
  /\ wst = <<>>
  /\ respawned = {}
  /\ onPlan = {}
  /\ okRanges = {}
  /\ reloadWorker = FALSE
  /\ cancelFuncSet = FALSE
  /\ ctxDone = FALSE
  /\ cancelMid = FALSE
  /\ monitorErr = "nil"
  /\ execErr = "running"
  /\ removeCalls = 0
  /\ events = <<>>
  /\ dlRet = "running"
  /\ checkErr = "none"
  /\ succeed = FALSE

\* lines 718-741: the list starts with the primary entry
ProbeBegin ==
  /\ epc = "execute"
  /\ lbArr' = [lbArr EXCEPT ![1] = 0]
  /\ lbLen' = 1
  /\ epc' = "probe"
  /\ UNCHANGED <<fileSize, mirrors, lbNext, lbpc, lbOut, lbSeen, diskState,
                 stateCreated, isInstance, wk, urlFailed, monWorkers, wst,
                 respawned, onPlan, okRanges, reloadWorker, cancelFuncSet, cancelsLeft,
                 ctxDone, cancelMid, monitorErr, execErr, removeCalls,
                 events, dlRet, noCheck, checkErr,
                 succeed>>
  /\ UNCHANGED <<upVars, dlVars, csVars, tkVars, nmVars>>

\* lines 747-749: wg.AddDelta() and the goroutine of the next mirror
ProbeSpawn ==
  /\ epc = "probe"
  /\ lbNext <= mirrors
  /\ Cardinality(ProbesRunning) < LbGateSize
  /\ lbpc' = [lbpc EXCEPT ![lbNext] = "check"]
  /\ lbNext' = lbNext + 1
  /\ UNCHANGED <<epc, fileSize, mirrors, lbOut, lbSeen, lbArr, lbLen,
                 diskState, stateCreated, isInstance, wk, urlFailed,
                 monWorkers, wst, respawned, onPlan, okRanges, reloadWorker,
                 cancelFuncSet, cancelsLeft, ctxDone, cancelMid, monitorErr, execErr,
                 removeCalls, events, dlRet, noCheck,
                 checkErr, succeed>>
  /\ UNCHANGED <<upVars, dlVars, csVars, tkVars, nmVars>>

\* lines 752-786: the probe and its checks; handleLoadBalancer returns at
\* once when the request is nil
ProbeCheck(m) ==
  /\ lbpc[m] = "check"
  /\ \E o \in ProbeOutcomes :
       /\ lbOut' = [lbOut EXCEPT ![m] = o]
       /\ lbpc' = [lbpc EXCEPT ![m] =
                     IF ProbeAccepts(o) /\ o.hasReq THEN "append" ELSE "done"]
  /\ UNCHANGED <<epc, fileSize, mirrors, lbNext, lbSeen, lbArr, lbLen,
                 diskState, stateCreated, isInstance, wk, urlFailed,
                 monWorkers, wst, respawned, onPlan, okRanges, reloadWorker,
                 cancelFuncSet, cancelsLeft, ctxDone, cancelMid, monitorErr, execErr,
                 removeCalls, events, dlRet, noCheck,
                 checkErr, succeed>>
  /\ UNCHANGED <<upVars, dlVars, csVars, tkVars, nmVars>>

\* line 733: append reads the slice; no lock orders the goroutines
ProbeAppendRead(m) ==
  /\ lbpc[m] = "append"
  /\ lbSeen' = [lbSeen EXCEPT ![m] = lbLen]
  /\ lbpc' = [lbpc EXCEPT ![m] = "write"]
  /\ UNCHANGED <<epc, fileSize, mirrors, lbNext, lbOut, lbArr, lbLen,
                 diskState, stateCreated, isInstance, wk, urlFailed,
                 monWorkers, wst, respawned, onPlan, okRanges, reloadWorker,
                 cancelFuncSet, cancelsLeft, ctxDone, cancelMid, monitorErr, execErr,
                 removeCalls, events, dlRet, noCheck,
                 checkErr, succeed>>
  /\ UNCHANGED <<upVars, dlVars, csVars, tkVars, nmVars>>

\* line 733: append stores the element behind the length it read and the
\* slice with that length plus one; the capacity is never exceeded
ProbeAppendWrite(m) ==
  /\ lbpc[m] = "write"
  /\ lbArr' = [lbArr EXCEPT ![lbSeen[m] + 1] = m]
  /\ lbLen' = lbSeen[m] + 1
  /\ lbpc' = [lbpc EXCEPT ![m] = "done"]
  /\ UNCHANGED <<epc, fileSize, mirrors, lbNext, lbOut, lbSeen, diskState,
                 stateCreated, isInstance, wk, urlFailed, monWorkers, wst,
                 respawned, onPlan, okRanges, reloadWorker, cancelFuncSet, cancelsLeft,
                 ctxDone, cancelMid, monitorErr, execErr, removeCalls,
                 events, dlRet, noCheck, checkErr,
                 succeed>>
  /\ UNCHANGED <<upVars, dlVars, csVars, tkVars, nmVars>>

\* lines 789-793: wg.Wait() and the list that is returned
ProbeWait ==
  /\ epc = "probe"
  /\ lbNext > mirrors
  /\ ProbesRunning = {}
  /\ epc' = "state"
  /\ UNCHANGED <<fileSize, mirrors, lbNext, lbpc, lbOut, lbSeen, lbArr, lbLen,
                 diskState, stateCreated, isInstance, wk, urlFailed,
                 monWorkers, wst, respawned, onPlan, okRanges, reloadWorker,
                 cancelFuncSet, cancelsLeft, ctxDone, cancelMid, monitorErr, execErr,
                 removeCalls, events, dlRet, noCheck,
                 checkErr, succeed>>
  /\ UNCHANGED <<upVars, dlVars, csVars, tkVars, nmVars>>

ProbeNext ==
  \/ ProbeBegin
  \/ ProbeSpawn
  \/ \E m \in Mirrors : ProbeCheck(m)
  \/ \E m \in Mirrors : ProbeAppendRead(m)
  \/ \E m \in Mirrors : ProbeAppendWrite(m)
  \/ ProbeWait

\* the state file is not on disk, or was created and holds nothing yet
AbsentState == [kind |-> "absent", total |-> 0, ranges |-> <<>>, gen |-> NoGen]
EmptyState == [kind |-> "empty", total |-> 0, ranges |-> <<>>, gen |-> NoGen]

\* Execute called for a file with mirrors to probe
ProbeInit ==
  /\ epc = "execute"
  /\ fileSize \in {0, 1}
  /\ mirrors \in 0..MaxMirrors
  /\ diskState = AbsentState
  /\ noCheck = FALSE
  /\ cancelsLeft = 0
  /\ ExBlank

\* the download run while the model follows something else
ExIdle ==
  /\ epc = "idle"
  /\ fileSize = 0
  /\ mirrors = 0
  /\ diskState = AbsentState
  /\ noCheck = FALSE
  /\ cancelsLeft = 0
  /\ ExBlank

(***************************************************************************)
(* Downloader.Execute, Downloader.Cancel (package downloader) and          *)
(* DownloadTaskUnit.download, Run (package pandownload); the Monitor and   *)
(* the InstanceState of package downloader                                 *)
(***************************************************************************)

\* how often Execute has triggered the event e
EventCount(e) == Cardinality({i \in 1..Len(events) : events[i] = e})

\* part_000 lines 103-119: the directory and the local file are opened
DownloadOpen ==
  /\ epc = "open"
  /\ \E ok \in BOOLEAN :
       IF ok
       THEN /\ epc' = "execute"
            /\ UNCHANGED dlRet
       ELSE /\ epc' = "done"
            /\ dlRet' = "ErrDownloadInit"
  /\ UNCHANGED <<fileSize, mirrors, lbNext, lbpc, lbOut, lbSeen, lbArr, lbLen,
                 diskState, stateCreated, isInstance, wk, urlFailed,
                 monWorkers, wst, respawned, onPlan, okRanges, reloadWorker,
                 cancelFuncSet, cancelsLeft, ctxDone, cancelMid, monitorErr, execErr,
                 removeCalls, events, noCheck, checkErr, succeed>>
  /\ UNCHANGED <<upVars, dlVars, csVars, tkVars, nmVars>>

\* InstanceState.Get: the saved info is the resume plan when the file is
\* there and was saved for a file of this size
ResumesState(state, size) == state.kind = "saved" /\ state.total = size

\* lines 805-827: initInstanceState creates the state file when there is
\* none; bii and status come from the saved info or are new
InitInstanceState ==
  /\ epc = "state"
  /\ \E ok \in BOOLEAN :
       IF ~ok
       THEN /\ execErr' = "ErrInitState"
            /\ epc' = "returned"
            /\ UNCHANGED <<diskState, stateCreated, isInstance>>
            /\ UNCHANGED dlVars
       ELSE /\ diskState' = IF diskState.kind = "absent" THEN EmptyState
                            ELSE diskState
            /\ stateCreated' = IF diskState.kind = "absent"
                               THEN stateCreated + 1 ELSE stateCreated
            /\ isInstance' = ResumesState(diskState, fileSize)
            /\ totalSize' = IF ResumesState(diskState, fileSize)
                            THEN diskState.total ELSE fileSize
            /\ biiRanges' = IF ResumesState(diskState, fileSize)
                            THEN diskState.ranges ELSE <<>>
            /\ gen' = IF ResumesState(diskState, fileSize)
                      THEN diskState.gen ELSE NoGen
            /\ dpc' = "start"
            /\ epc' = "planning"
            /\ UNCHANGED execErr
            /\ UNCHANGED <<viaExecute, cfgMaxParallel, cfgBlockSize, cfgMode,
                           single, dlParallel, blockSize, initErr, loopI,
                           drawn, plan>>
  /\ UNCHANGED <<fileSize, mirrors, lbNext, lbpc, lbOut, lbSeen, lbArr, lbLen,
                 wk, urlFailed, monWorkers, wst, respawned, onPlan, okRanges,
                 reloadWorker, cancelFuncSet, cancelsLeft, ctxDone, cancelMid, monitorErr,
                 removeCalls, events, dlRet, noCheck, checkErr, succeed>>
  /\ UNCHANGED <<upVars, csVars, tkVars, nmVars>>

\* line 948 and lines 807, 840: what Execute returns
ExecuteReturnNil(err) == "nil"
ExecuteReturn(err) == err

\* lines 839-841: SelectBlockSizeAndInitRangeGen failed
ReturnInitErr ==
  /\ epc = "planning"
  /\ dpc = "done"
  /\ initErr # "nil"
  /\ execErr' = ExecuteReturn(initErr)
  /\ epc' = "returned"
  /\ UNCHANGED <<fileSize, mirrors, lbNext, lbpc, lbOut, lbSeen, lbArr, lbLen,
                 diskState, stateCreated, isInstance, wk, urlFailed,
                 monWorkers, wst, respawned, onPlan, okRanges, reloadWorker,
                 cancelFuncSet, cancelsLeft, ctxDone, cancelMid, monitorErr, removeCalls,
                 events, dlRet, noCheck, checkErr, succeed>>
  /\ UNCHANGED <<upVars, dlVars, csVars, tkVars, nmVars>>

\* lines 843-882: the allocation is over, the worker loop starts
BeginWorkers ==
  /\ epc = "planning"
  /\ dpc = "tail"
  /\ epc' = "workers"
  /\ wk' = 1
  /\ dpc' = "run"
  /\ UNCHANGED <<fileSize, mirrors, lbNext, lbpc, lbOut, lbSeen, lbArr, lbLen,
                 diskState, stateCreated, isInstance, urlFailed, monWorkers,
                 wst, respawned, onPlan, okRanges, reloadWorker,
                 cancelFuncSet, cancelsLeft, ctxDone, cancelMid, monitorErr, execErr,
                 removeCalls, events, dlRet, noCheck, checkErr, succeed>>
  /\ UNCHANGED <<viaExecute, totalSize, cfgMaxParallel, cfgBlockSize, cfgMode,
                 single, biiRanges, dlParallel, blockSize, initErr, gen,
                 loopI, drawn, plan>>
  /\ UNCHANGED <<upVars, csVars, tkVars, nmVars>>

\* lines 884-901: a worker is built unless SequentialGet returned nil or the
\* download URL call returned an error
WorkerBuilt(lbFound, apierr) == lbFound /\ ~apierr

\* lines 883-916: one turn of the loop over bii.Ranges; the plan index wk
\* stands for k = wk - 1
BuildWorker ==
  /\ epc = "workers"
  /\ wk <= Len(plan)
  /\ \E apierr \in BOOLEAN :
       IF WorkerBuilt(lbLen > 0, apierr)
       THEN /\ monWorkers' = Append(monWorkers,
                                    [id |-> wk - 1, range |-> plan[wk]])
            /\ wst' = Append(wst, "waiting")
            /\ UNCHANGED urlFailed
       ELSE /\ urlFailed' = urlFailed \cup {wk}
            /\ UNCHANGED <<monWorkers, wst>>
  /\ wk' = wk + 1
  /\ UNCHANGED <<epc, fileSize, mirrors, lbNext, lbpc, lbOut, lbSeen, lbArr,
                 lbLen, diskState, stateCreated, isInstance, respawned,
                 onPlan, okRanges, reloadWorker, cancelFuncSet, cancelsLeft, ctxDone,
                 cancelMid, monitorErr, execErr, removeCalls, events, dlRet,
                 noCheck, checkErr, succeed>>
  /\ UNCHANGED <<upVars, dlVars, csVars, tkVars, nmVars>>

\* line 921: der.monitor.SetReloadWorker(parallel > 1)
ReloadSettingAlways(par) == TRUE
ReloadSetting(par) == par > 1

\* lines 918-932: the Monitor gets its settings, the cancel function is
\* stored, the execute event fires and Monitor.Execute starts the workers,
\* or finds that it has none
StartMonitor ==
  /\ epc = "workers"
  /\ wk > Len(plan)
  /\ reloadWorker' = ReloadSetting(dlParallel)
  /\ cancelFuncSet' = TRUE
  /\ events' = Append(events, "execute")
  /\ IF Len(monWorkers) = 0
     THEN /\ monitorErr' = "ErrNoWokers"
          /\ epc' = "result"
          /\ UNCHANGED <<wst, onPlan>>
     ELSE /\ wst' = [i \in 1..Len(wst) |-> "running"]
          /\ onPlan' = 1..Len(wst)
          /\ epc' = "monitor"
          /\ UNCHANGED monitorErr
  /\ UNCHANGED <<fileSize, mirrors, lbNext, lbpc, lbOut, lbSeen, lbArr, lbLen,
                 diskState, stateCreated, isInstance, wk, urlFailed,
                 monWorkers, respawned, okRanges, cancelsLeft, ctxDone,
                 cancelMid, execErr, removeCalls, dlRet, noCheck, checkErr,
                 succeed>>
  /\ UNCHANGED <<upVars, dlVars, csVars, tkVars, nmVars>>

\* line 630 (lazyInit, called at line 798): der.monitor is set from the
\* moment Execute runs
MonitorCreated ==
  \/ epc \in {"probe", "state", "planning", "workers", "monitor", "result",
              "returned"}
  \/ (epc = "done" /\ execErr # "running")

\* line 996: Trigger runs the cancel function when one is stored; cancelling
\* a context that is cancelled already changes nothing
TriggerCancelToggles(fset, done) == IF fset THEN ~done ELSE done
TriggerCancel(fset, done) == fset \/ done

\* lines 991-997: Cancel returns at once while der.monitor is nil, otherwise
\* it triggers der.monitorCancelFunc; der.onCancelEvent is never set by
\* download(), so line 995 triggers nothing
Cancel ==
  /\ epc \notin {"idle"}
  /\ ~(epc = "done" /\ execErr = "running")
  /\ cancelsLeft > 0
  /\ cancelsLeft' = cancelsLeft - 1
  /\ IF MonitorCreated
     THEN ctxDone' = TriggerCancel(cancelFuncSet, ctxDone)
     ELSE UNCHANGED ctxDone
  /\ UNCHANGED <<epc, fileSize, mirrors, lbNext, lbpc, lbOut, lbSeen, lbArr,
                 lbLen, diskState, stateCreated, isInstance, wk, urlFailed,
                 monWorkers, wst, respawned, onPlan, okRanges, reloadWorker,
                 cancelFuncSet, cancelMid, monitorErr, execErr, removeCalls,
                 events, dlRet, noCheck, checkErr, succeed>>
  /\ UNCHANGED <<upVars, dlVars, csVars, tkVars, nmVars>>

\* the generator has handed out the whole file
GenDone == gen = NoGen \/ GenRange(gen).r = <<>>

AllWorkersSucceeded == \A i \in 1..Len(wst) : wst[i] = "success"

\* a worker finishes its range
WorkerSucceeds(i) ==
  /\ epc = "monitor"
  /\ wst[i] = "running"
  /\ wst' = [wst EXCEPT ![i] = "success"]
  /\ okRanges' = IF i \in onPlan THEN okRanges \cup {monWorkers[i].id}
                 ELSE okRanges
  /\ UNCHANGED <<epc, fileSize, mirrors, lbNext, lbpc, lbOut, lbSeen, lbArr,
                 lbLen, diskState, stateCreated, isInstance, wk, urlFailed,
                 monWorkers, respawned, onPlan, reloadWorker, cancelFuncSet, cancelsLeft,
                 ctxDone, cancelMid, monitorErr, execErr, removeCalls, events,
                 dlRet, noCheck, checkErr, succeed>>
  /\ UNCHANGED <<upVars, dlVars, csVars, tkVars, nmVars>>

\* a worker fails: with reload on the Monitor respawns it once, otherwise
\* the failure ends the transfer and the other workers are stopped
WorkerFails(i) ==
  /\ epc = "monitor"
  /\ ~ctxDone
  /\ wst[i] = "running"
  /\ IF reloadWorker /\ i \notin respawned
     THEN /\ respawned' = respawned \cup {i}
          /\ UNCHANGED <<wst, monitorErr, epc>>
     ELSE /\ wst' = [j \in 1..Len(wst) |->
                       IF j = i THEN "failed"
                       ELSE IF wst[j] = "running" THEN "cancelled"
                       ELSE wst[j]]
          /\ monitorErr' = "ErrWorkerFailed"
          /\ epc' = "result"
          /\ UNCHANGED respawned
  /\ UNCHANGED <<fileSize, mirrors, lbNext, lbpc, lbOut, lbSeen, lbArr, lbLen,
                 diskState, stateCreated, isInstance, wk, urlFailed,
                 monWorkers, onPlan, okRanges, reloadWorker, cancelFuncSet, cancelsLeft,
                 ctxDone, cancelMid, execErr, removeCalls, events, dlRet,
                 noCheck, checkErr, succeed>>
  /\ UNCHANGED <<upVars, dlVars, csVars, tkVars, nmVars>>

\* a worker that is through takes the next range of the generator
MonitorNextRange(i) ==
  /\ epc = "monitor"
  /\ ~ctxDone
  /\ wst[i] = "success"
  /\ ~GenDone
  /\ LET out == GenRange(gen)
     IN /\ gen' = out.gen
        /\ drawn' = drawn \o out.r
        /\ monWorkers' = [monWorkers EXCEPT ![i].range = out.r[1]]
  /\ wst' = [wst EXCEPT ![i] = "running"]
  /\ onPlan' = onPlan \ {i}
  /\ UNCHANGED <<epc, fileSize, mirrors, lbNext, lbpc, lbOut, lbSeen, lbArr,
                 lbLen, diskState, stateCreated, isInstance, wk, urlFailed,
                 respawned, okRanges, reloadWorker, cancelFuncSet, cancelsLeft, ctxDone,
                 cancelMid, monitorErr, execErr, removeCalls, events, dlRet,
                 noCheck, checkErr, succeed>>
  /\ UNCHANGED <<dpc, viaExecute, totalSize, cfgMaxParallel, cfgBlockSize,
                 cfgMode, single, biiRanges, dlParallel, blockSize, initErr,
                 loopI, plan>>
  /\ UNCHANGED <<upVars, csVars, tkVars, nmVars>>

\* every worker reached success and no range is left: the Monitor is
\* through without error
MonitorComplete ==
  /\ epc = "monitor"
  /\ AllWorkersSucceeded
  /\ GenDone
  /\ monitorErr' = "nil"
  /\ epc' = "result"
  /\ UNCHANGED <<fileSize, mirrors, lbNext, lbpc, lbOut, lbSeen, lbArr, lbLen,
                 diskState, stateCreated, isInstance, wk, urlFailed,
                 monWorkers, wst, respawned, onPlan, okRanges, reloadWorker,
                 cancelFuncSet, cancelsLeft, ctxDone, cancelMid, execErr, removeCalls,
                 events, dlRet, noCheck, checkErr, succeed>>
  /\ UNCHANGED <<upVars, dlVars, csVars, tkVars, nmVars>>

\* the Monitor sees the cancelled context and stops the running workers
MonitorCancel ==
  /\ epc = "monitor"
  /\ ctxDone
  /\ wst' = [j \in 1..Len(wst) |->
               IF wst[j] = "running" THEN "cancelled" ELSE wst[j]]
  /\ cancelMid' = \E j \in 1..Len(wst) : wst[j] = "running"
  /\ monitorErr' = IF AllWorkersSucceeded /\ GenDone THEN "nil"
                   ELSE "ErrCanceled"
  /\ epc' = "result"
  /\ UNCHANGED <<fileSize, mirrors, lbNext, lbpc, lbOut, lbSeen, lbArr, lbLen,
                 diskState, stateCreated, isInstance, wk, urlFailed,
                 monWorkers, respawned, onPlan, okRanges, reloadWorker,
                 cancelFuncSet, cancelsLeft, ctxDone, execErr, removeCalls, events, dlRet,
                 noCheck, checkErr, succeed>>
  /\ UNCHANGED <<upVars, dlVars, csVars, tkVars, nmVars>>

\* lines 936-943: the outcomes Execute treats as a success
ExecuteSucceededNilOnly(err, size) == err = "nil"
ExecuteSucceeded(err, size) ==
  err = "nil" \/ (err = "ErrNoWokers" /\ size = 0)

\* lines 936-947: the events Execute triggers once the Monitor is through
ResultEventsFinishFirst(ok) ==
  IF ok THEN <<"finish", "success">> ELSE <<"finish">>
ResultEvents(ok) == IF ok THEN <<"success", "finish">> ELSE <<"finish">>

\* lines 934-948: success event and removeInstanceState on success, the
\* finish event, the return
ExecuteResult ==
  /\ epc = "result"
  /\ events' = events \o ResultEvents(ExecuteSucceeded(monitorErr, fileSize))
  /\ IF ExecuteSucceeded(monitorErr, fileSize)
     THEN /\ removeCalls' = removeCalls + 1
          /\ diskState' = AbsentState
     ELSE UNCHANGED <<removeCalls, diskState>>
  /\ execErr' = ExecuteReturn(monitorErr)
  /\ epc' = "returned"
  /\ UNCHANGED <<fileSize, mirrors, lbNext, lbpc, lbOut, lbSeen, lbArr, lbLen,
                 stateCreated, isInstance, wk, urlFailed, monWorkers, wst,
                 respawned, onPlan, okRanges, reloadWorker, cancelFuncSet, cancelsLeft,
                 ctxDone, cancelMid, monitorErr, dlRet, noCheck, checkErr,
                 succeed>>
  /\ UNCHANGED <<upVars, dlVars, csVars, tkVars, nmVars>>

\* part_000 lines 191-223: what download() returns for Execute's err
DownloadResultLenient(err, size) == IF err = "ErrNoWokers" THEN "nil" ELSE err
DownloadResult(err, size) ==
  IF err # "nil" /\ ~(err = "ErrNoWokers" /\ size = 0) THEN err ELSE "nil"

\* what CheckFileValid may return
ValidationResults ==
  {"nil", "ErrDownloadNotSupportChecksum", "ErrDownloadFileBanned",
   "ErrDownloadChecksumFailed", "ErrOther"}

\* part_000 lines 258-300: ok of checkFileValid
CheckFileValidOk(nc, verr) ==
  IF nc THEN FALSE
  ELSE verr \in {"nil", "ErrDownloadNotSupportChecksum"}

\* part_000 lines 190-223 and 403-423: download() returns, Run validates the
\* file and sets result.Succeed
DownloadReturn ==
  /\ epc = "returned"
  /\ dlRet' = DownloadResult(execErr, fileSize)
  /\ IF DownloadResult(execErr, fileSize) # "nil"
     THEN /\ succeed' = FALSE
          /\ UNCHANGED checkErr
     ELSE IF noCheck
     THEN /\ succeed' = CheckFileValidOk(TRUE, "nil")
          /\ UNCHANGED checkErr
     ELSE \E v \in ValidationResults :
            /\ checkErr' = v
            /\ succeed' = CheckFileValidOk(FALSE, v)
  /\ epc' = "done"
  /\ UNCHANGED <<fileSize, mirrors, lbNext, lbpc, lbOut, lbSeen, lbArr, lbLen,
                 diskState, stateCreated, isInstance, wk, urlFailed,
                 monWorkers, wst, respawned, onPlan, okRanges, reloadWorker,
                 cancelFuncSet, cancelsLeft, ctxDone, cancelMid, monitorErr, execErr,
                 removeCalls, events, noCheck>>
  /\ UNCHANGED <<upVars, dlVars, csVars, tkVars, nmVars>>

ExecNext ==
  \/ DownloadOpen
  \/ ProbeBegin
  \/ ProbeWait
  \/ InitInstanceState
  \/ ExecSelectParallel
  \/ DoSelectBlockSize
  \/ AllocRange
  \/ ReturnInitErr
  \/ BeginWorkers
  \/ BuildWorker
  \/ StartMonitor
  \/ Cancel
  \/ \E i \in 1..Len(wst) : WorkerSucceeds(i)
  \/ \E i \in 1..Len(wst) : WorkerFails(i)
  \/ \E i \in 1..Len(wst) : MonitorNextRange(i)
  \/ MonitorComplete
  \/ MonitorCancel
  \/ ExecuteResult
  \/ DownloadReturn

\* the file sizes and block sizes of the runs the model follows
ExecSizes == {0, 1} \cup {k * MinParallelSize : k \in 1..MaxBlocks}
ExecBlocks == {MinParallelSize \div 2, 2 * MinParallelSize + 1}

\* what a run may find on disk: nothing, the state of an interrupted run of
\* this file, or one saved for a file of another size
DiskStates(size, bs) ==
  {AbsentState}
    \cup {[kind |-> "saved", total |-> size, ranges |-> st.ranges,
           gen |-> st.gen] : st \in SavedStates(size, bs)}
    \cup {[kind |-> "saved", total |-> size + MinParallelSize,
           ranges |-> st.ranges, gen |-> st.gen] :
            st \in SavedStates(size + MinParallelSize, bs)}

\* the plan variables before Execute reaches line 837, for a configuration
\* with one of the given block sizes and parallel limits
DlHoldWith(blocks, pars) ==
  /\ dpc = "hold"
  /\ viaExecute = TRUE
  /\ totalSize = 0
  /\ cfgBlockSize \in blocks
  /\ cfgMaxParallel \in pars
  /\ cfgMode \in {"Default", "BlockSize", "Unknown"}
  /\ single = FALSE
  /\ biiRanges = <<>>
  /\ gen = NoGen
  /\ dlParallel = 0
  /\ blockSize = 0
  /\ initErr = "nil"
  /\ loopI = 0
  /\ drawn = <<>>
  /\ plan = <<>>

DlHold == DlHoldWith(ExecBlocks, 1..MaxDlParallel)

\* download() is called for a file of one of the given sizes, by a caller
\* who goes on to call Cancel as often as said
ExecInitWith(sizes, cancels) ==
  /\ epc = "open"
  /\ fileSize \in sizes
  /\ mirrors = 0
  /\ diskState \in DiskStates(fileSize, cfgBlockSize)
  /\ noCheck \in BOOLEAN
  /\ cancelsLeft \in cancels
  /\ ExBlank

\* a run in which the caller cancels once at most
ExecInit == ExecInitWith(ExecSizes, {1})

\* the runs in which the caller calls Cancel again and again
CancelSizes == {0, MaxBlocks * MinParallelSize}
CancelBlocks == {MinParallelSize \div 2}
CancelParallels == {1, MaxDlParallel}

(***************************************************************************)
(* Downloader.SelectCacheSize (package downloader)                         *)
(***************************************************************************)

\* lines 695-703; int64(confCacheSize) is exact, and int(blockSize) is
\* taken only of a block size below confCacheSize, which fits an int
SelectCacheSizeUnclamped(conf, bs) == conf
SelectCacheSize(conf, bs) == IF bs > 0 /\ conf > bs THEN bs ELSE conf

\* the arguments of the calls the model follows; a block size of -1 stands
\* for a single stream
CacheSizes == -1..MaxCacheSize
CacheBlockSizes == -1..MaxCacheSize

\* line 843: the call
DoSelectCacheSize ==
  /\ cspc = "call"
  /\ cacheSize' = SelectCacheSize(confCacheSize, argBlockSize)
  /\ cspc' = "done"
  /\ UNCHANGED <<confCacheSize, argBlockSize>>
  /\ UNCHANGED <<upVars, dlVars, exVars, tkVars, nmVars>>

CsInit ==
  /\ cspc = "call"
  /\ confCacheSize \in CacheSizes
  /\ argBlockSize \in CacheBlockSizes
  /\ cacheSize = 0

\* SelectCacheSize while the model follows something else
CsIdle ==
  /\ cspc = "idle"
  /\ confCacheSize = 0
  /\ argBlockSize = 0
  /\ cacheSize = 0

(***************************************************************************)
(* RunDownload (package command), the TaskExecutor (package taskframework) *)
(* and DownloadTaskUnit.Run, handleError, checkFileValid (pandownload)     *)
(***************************************************************************)

\* download.go line 270: IsFailedDeque: true
IsFailedDequeOff == FALSE
IsFailedDeque == TRUE

\* the result of Run before anything is set (part_000 line 333)
NoResult == [Succeed |-> FALSE, NeedRetry |-> FALSE, Err |-> "nil"]

\* part_000 lines 239-256: the NeedRetry that handleError sets for an error
\* that is a *apierror.ApiError with the file-not-found code or another
\* code, a *os.PathError, or any other error
HandleErrorRetriesAll(err) == TRUE
HandleError(err) ==
  IF err = "ApiNotFound" THEN FALSE
  ELSE IF err = "ApiOther" THEN TRUE
  ELSE IF err = "PathError" THEN FALSE
  ELSE TRUE

\* the errors AppFileInfoByPath may return, and those of download()
ApiErrors == {"ApiNotFound", "ApiOther"}
DownloadErrors == ApiErrors \cup {"PathError", "Other"}

\* part_000 lines 282-295: NeedRetry after a failed validation
CheckFileValidRetryNever(verr) == FALSE
CheckFileValidRetry(verr) == verr = "ErrDownloadChecksumFailed"

\* part_000 lines 286-291: IsOverwrite after a failed validation
CheckFileValidOverwrite(ow, verr) ==
  ow \/ verr = "ErrDownloadChecksumFailed"

\* what os.Stat finds for SavePath and for SavePath + DownloadSuffix; NoStat
\* when FileExist was not called
NoStat == [seen |-> FALSE, exists |-> FALSE, size |-> 0, resume |-> FALSE]
LocalFiles ==
  {[seen |-> TRUE, exists |-> FALSE, size |-> 0, resume |-> FALSE]}
    \cup {[seen |-> TRUE, exists |-> TRUE, size |-> n, resume |-> r] :
            n \in {0, 1}, r \in BOOLEAN}

\* utils.go lines 75-86: FileExist
FileExistIgnoresResume(f) == f.exists /\ f.size # 0
FileExist(f) ==
  IF f.exists
  THEN IF f.size = 0 THEN FALSE
       ELSE IF ~f.resume THEN TRUE
       ELSE FALSE
  ELSE FALSE

\* part_000 line 393: FileExist is called only when IsOverwrite is not set
StatResults(ow) == IF ow THEN {NoStat} ELSE LocalFiles

\* a unit as Append takes it: its TaskInfo (id, maxRetry, retry), the fields
\* of the DownloadTaskUnit, the hooks called on it so far, the calls of
\* download() it has made and the fileList its Run has gone through
NewUnit(id, folder, hasInfo, maxRetry, ow, nc, parent, file) ==
  [id |-> id, folder |-> folder, hasInfo |-> hasInfo, maxRetry |-> maxRetry,
   retry |-> 0, isOverwrite |-> ow, noCheck |-> nc, parent |-> parent,
   file |-> file, state |-> "queued", log |-> <<>>, downloads |-> 0,
   fileList |-> <<>>, local |-> NoStat]

\* TaskExecutor.Append: the next id
NextIdSame(id) == id
NextId(id) == id + 1

\* the child units of lines 370-385: one for every entry of fileList that is
\* no folder, a copy of the directory unit with the entry's path and info
RECURSIVE ChildUnits(_, _, _, _)
ChildUnitsWithFolders(fileList, k, dir, id) ==
  IF k > Len(fileList) THEN <<>>
  ELSE <<NewUnit(NextId(id), fileList[k], TRUE, units[dir].maxRetry,
                 units[dir].isOverwrite, units[dir].noCheck, dir, k)>>
         \o ChildUnits(fileList, k + 1, dir, NextId(id))
ChildUnits(fileList, k, dir, id) ==
  IF k > Len(fileList) THEN <<>>
  ELSE IF fileList[k] THEN ChildUnits(fileList, k + 1, dir, id)
  ELSE <<NewUnit(NextId(id), FALSE, TRUE, units[dir].maxRetry,
                 units[dir].isOverwrite, units[dir].noCheck, dir, k)>>
         \o ChildUnits(fileList, k + 1, dir, NextId(id))

\* what AppFilesDirectoriesRecurseList may return: TRUE stands for a folder
FileLists == UNION {[1..n -> BOOLEAN] : n \in 0..MaxFiles}

\* download.go lines 275-303: the unit of the next path is appended
TkAppend ==
  /\ tpc = "append"
  /\ paths # <<>>
  /\ units' = Append(units,
                     NewUnit(NextId(lastId), Head(paths), FALSE, optMaxRetry,
                             optOverwrite, optNoCheck, 0, Len(units) + 1))
  /\ lastId' = NextId(lastId)
  /\ taskDeque' = Append(taskDeque, Len(units) + 1)
  /\ paths' = Tail(paths)
  /\ UNCHANGED <<tpc, optMaxRetry, optOverwrite, optNoCheck, failedDeque, cur,
                 runResult>>
  /\ UNCHANGED <<upVars, dlVars, exVars, csVars, nmVars>>

\* download.go line 309: executor.Execute() is called
TkExecute ==
  /\ tpc = "append"
  /\ paths = <<>>
  /\ tpc' = "execute"
  /\ UNCHANGED <<optMaxRetry, optOverwrite, optNoCheck, paths, units, lastId,
                 taskDeque, failedDeque, cur, runResult>>
  /\ UNCHANGED <<upVars, dlVars, exVars, csVars, nmVars>>

\* Execute takes the next unit of the queue
TkShift ==
  /\ tpc = "execute"
  /\ taskDeque # <<>>
  /\ cur' = Head(taskDeque)
  /\ taskDeque' = Tail(taskDeque)
  /\ tpc' = "run"
  /\ UNCHANGED <<optMaxRetry, optOverwrite, optNoCheck, paths, units, lastId,
                 failedDeque, runResult>>
  /\ UNCHANGED <<upVars, dlVars, exVars, csVars, nmVars>>

\* Run returns r, having called download() or not, left the unit with the
\* given fields and appended the given children
RunReturns(r, hasInfo, ow, children, calls, fileList, local) ==
  /\ runResult' = r
  /\ units' = [units EXCEPT ![cur].log = Append(@, "Run"),
                            ![cur].hasInfo = hasInfo,
                            ![cur].isOverwrite = ow,
                            ![cur].downloads = @ + calls,
                            ![cur].fileList = fileList,
                            ![cur].local = local] \o children
  /\ lastId' = lastId + Len(children)
  /\ taskDeque' = taskDeque
                    \o [k \in 1..Len(children) |-> Len(units) + k]
  /\ tpc' = "settle"

\* part_000 lines 393-397: a file that is there is not downloaded again,
\* unless the unit may overwrite it
SkipsExistingAlways(ow, exists) == exists
SkipsExisting(ow, exists) == ~ow /\ exists

\* part_000 lines 401-423: download(), then the validation of the file
DownloadAndCheck(u, f) ==
  \/ \E e \in DownloadErrors :
       RunReturns([Succeed |-> FALSE, NeedRetry |-> HandleError(e),
                   Err |-> e], TRUE, u.isOverwrite, <<>>, 1, u.fileList, f)
  \/ /\ u.noCheck
     /\ RunReturns([NoResult EXCEPT
                      !.Succeed = CheckFileValidOk(TRUE, "nil")],
                   TRUE, u.isOverwrite, <<>>, 1, u.fileList, f)
  \/ /\ ~u.noCheck
     /\ \E v \in ValidationResults :
          IF CheckFileValidOk(FALSE, v)
          THEN RunReturns([Succeed |-> TRUE, NeedRetry |-> FALSE,
                           Err |-> v], TRUE, u.isOverwrite, <<>>, 1,
                          u.fileList, f)
          ELSE RunReturns([Succeed |-> FALSE,
                           NeedRetry |-> CheckFileValidRetry(v), Err |-> v],
                          TRUE, CheckFileValidOverwrite(u.isOverwrite, v),
                          <<>>, 1, u.fileList, f)

\* part_000 lines 332-424: one call of Run; its outcome depends on what the
\* calls of the API, the file system and the download return
UnitRun ==
  /\ tpc = "run"
  /\ LET u == units[cur]
         fetches == ~u.hasInfo \/ u.retry > 0
     IN \/ /\ fetches
           /\ \E e \in ApiErrors :
                RunReturns([Succeed |-> FALSE, NeedRetry |-> HandleError(e),
                            Err |-> e], u.hasInfo, u.isOverwrite, <<>>, 0,
                           u.fileList, NoStat)
        \/ /\ u.folder
           /\ RunReturns([Succeed |-> FALSE, NeedRetry |-> TRUE,
                          Err |-> "nil"], TRUE, u.isOverwrite, <<>>, 0,
                         u.fileList, NoStat)
        \/ /\ u.folder
           /\ \E fileList \in FileLists :
                /\ Len(units) + Len(ChildUnits(fileList, 1, cur, lastId))
                     <= MaxUnits
                /\ RunReturns([NoResult EXCEPT !.Succeed = TRUE], TRUE,
                              u.isOverwrite,
                              ChildUnits(fileList, 1, cur, lastId), 0,
                              fileList, NoStat)
        \/ /\ ~u.folder
           /\ \E f \in StatResults(u.isOverwrite) :
                IF SkipsExisting(u.isOverwrite, FileExist(f))
                THEN RunReturns([NoResult EXCEPT !.Succeed = TRUE], TRUE,
                                u.isOverwrite, <<>>, 0, u.fileList, f)
                ELSE DownloadAndCheck(u, f)
  /\ UNCHANGED <<optMaxRetry, optOverwrite, optNoCheck, paths, failedDeque,
                 cur>>
  /\ UNCHANGED <<upVars, dlVars, exVars, csVars, nmVars>>

\* the executor retries a unit while attempts remain: the attempts made are
\* retry + 1, maxRetry is the most there may be
AttemptsRemainAlways(retry, maxRetry) == TRUE
AttemptsRemain(retry, maxRetry) == retry + 1 < maxRetry

\* TaskInfo's bookkeeping of a retry
NextRetrySame(retry) == retry
NextRetry(retry) == retry + 1

\* the hook Execute calls for a result, before OnComplete
HookAlwaysFailed(r, remain) == "OnFailed"
Hook(r, remain) ==
  IF r.Succeed THEN "OnSuccess"
  ELSE IF r.NeedRetry /\ remain THEN "OnRetry"
  ELSE "OnFailed"

\* the hooks Execute calls for a result: the one of the transition, then
\* OnComplete
SettleHooksCompleteFirst(h) == <<"OnComplete", h>>
SettleHooks(h) == <<h, "OnComplete">>

\* Execute deals with the result of Run: success, a retry with the unit back
\* in the queue, or the failed collection; OnComplete comes last
TkSettle ==
  /\ tpc = "settle"
  /\ LET u == units[cur]
         h == Hook(runResult, AttemptsRemain(u.retry, u.maxRetry))
     IN /\ units' = [units EXCEPT
                       ![cur].log = @ \o SettleHooks(h),
                       ![cur].retry = IF h = "OnRetry" THEN NextRetry(@)
                                      ELSE @,
                       ![cur].state = IF h = "OnSuccess" THEN "succeeded"
                                      ELSE IF h = "OnFailed" THEN "failed"
                                      ELSE @]
        /\ taskDeque' = IF h = "OnRetry" THEN Append(taskDeque, cur)
                        ELSE taskDeque
        /\ failedDeque' = IF h = "OnFailed" /\ IsFailedDeque
                          THEN Append(failedDeque, cur) ELSE failedDeque
  /\ cur' = 0
  /\ tpc' = "execute"
  /\ UNCHANGED <<optMaxRetry, optOverwrite, optNoCheck, paths, lastId,
                 runResult>>
  /\ UNCHANGED <<upVars, dlVars, exVars, csVars, nmVars>>

\* the queue is empty: Execute returns (download.go line 311)
TkReturn ==
  /\ tpc = "execute"
  /\ taskDeque = <<>>
  /\ tpc' = "done"
  /\ UNCHANGED <<optMaxRetry, optOverwrite, optNoCheck, paths, units, lastId,
                 taskDeque, failedDeque, cur, runResult>>
  /\ UNCHANGED <<upVars, dlVars, exVars, csVars, nmVars>>

TkNext ==
  \/ TkAppend
  \/ TkExecute
  \/ TkShift
  \/ UnitRun
  \/ TkSettle
  \/ TkReturn

\* the path lists of RunDownload: TRUE stands for a folder
PathLists == UNION {[1..n -> BOOLEAN] : n \in 1..MaxPaths}

\* RunDownload has its options and paths and starts to append
TkInitWith(pathLists, overwrites, noChecks) ==
  /\ tpc = "append"
  /\ optMaxRetry \in 0..MaxRetry
  /\ optOverwrite \in overwrites
  /\ optNoCheck \in noChecks
  /\ paths \in pathLists
  /\ units = <<>>
  /\ lastId = 0
  /\ taskDeque = <<>>
  /\ failedDeque = <<>>
  /\ cur = 0
  /\ runResult = NoResult

\* a call for files and folders, with the options that make every file be
\* downloaded and validated
TkInit == TkInitWith(PathLists, {TRUE}, {FALSE})

\* a call for one file, with any options
UnitInit == TkInitWith({<<FALSE>>}, BOOLEAN, BOOLEAN)

\* RunDownload while the model follows something else
TkIdle ==
  /\ tpc = "idle"
  /\ optMaxRetry = 0
  /\ optOverwrite = FALSE
  /\ optNoCheck = FALSE
  /\ paths = <<>>
  /\ units = <<>>
  /\ lastId = 0
  /\ taskDeque = <<>>
  /\ failedDeque = <<>>
  /\ cur = 0
  /\ runResult = NoResult

(***************************************************************************)
(* AverageParallel (package config) and getBlockSize (package panupload)   *)
(***************************************************************************)

\* Go's integer division of a by a positive b, which rounds towards zero
GoDiv(a, b) == IF a >= 0 THEN a \div b ELSE -((-a) \div b)

\* panupdate.go lines 449-460
AverageParallelUnclamped(par, downloadLoad) ==
  IF downloadLoad < 1 THEN 1 ELSE GoDiv(par, downloadLoad)
AverageParallel(par, downloadLoad) ==
  IF downloadLoad < 1 THEN 1
  ELSE LET p == GoDiv(par, downloadLoad)
       IN IF p < 1 THEN 1 ELSE p

\* utils.go lines 26 and 39: MinUploadBlockSize is 4 * converter.MB, and a
\* file has at most 999 parts
MinUploadBlocksMiB == 4
MaxUploadParts == 999

\* a file size of mib * MiB + rest bytes, with rest below MiB; the sizes
\* around 999 parts of MinUploadBlockSize do not fit the integers of TLC
FileSizeOf(mib, rest) == [mib |-> mib, rest |-> rest]

\* fileSize / MaxUploadParts and the remainder, by long division
DivParts(size) ==
  LET low == (size.mib % MaxUploadParts) * MiB + size.rest
  IN [quot |-> (size.mib \div MaxUploadParts) * MiB
                 + low \div MaxUploadParts,
      rem |-> low % MaxUploadParts]

\* utils.go lines 37-43: getBlockSize; fileSize / MinUploadBlockSize is
\* mib / 4
GetBlockSize(size) ==
  LET blockNum == size.mib \div MinUploadBlocksMiB
  IN IF blockNum > MaxUploadParts THEN DivParts(size).quot + 1
     ELSE MinUploadBlocksMiB * MiB

\* the arguments of AverageParallel
AvgParallels == -1..MaxAvgParallel
AvgLoads == -1..MaxLoad

\* the file sizes handed to getBlockSize: small ones, and those around 999
\* and 1000 blocks of MinUploadBlockSize and around twice 999 blocks
UploadSizes ==
  {FileSizeOf(m, r) :
     m \in (0..MaxSizeMiB)
            \cup {MinUploadBlocksMiB * MaxUploadParts + d :
                    d \in -MaxSizeMiB..MaxSizeMiB}
            \cup {MinUploadBlocksMiB * (MaxUploadParts + 1) + d :
                    d \in -MaxSizeMiB..MaxSizeMiB}
            \cup {2 * MinUploadBlocksMiB * MaxUploadParts + d :
                    d \in -MaxSizeMiB..MaxSizeMiB},
     r \in {0, 1, MiB - 1}}

\* download.go line 263: AverageParallel is called
DoAverageParallel ==
  /\ npc = "average"
  /\ avgParallel' = AverageParallel(optParallel, loadCount)
  /\ npc' = "averaged"
  /\ UNCHANGED <<optParallel, loadCount, upFileSize, upBlockSize>>
  /\ UNCHANGED <<upVars, dlVars, exVars, csVars, tkVars>>

\* getBlockSize is called
DoGetBlockSize ==
  /\ npc = "block"
  /\ upBlockSize' = GetBlockSize(upFileSize)
  /\ npc' = "sized"
  /\ UNCHANGED <<optParallel, loadCount, avgParallel, upFileSize>>
  /\ UNCHANGED <<upVars, dlVars, exVars, csVars, tkVars>>

AverageInit ==
  /\ npc = "average"
  /\ optParallel \in AvgParallels
  /\ loadCount \in AvgLoads
  /\ avgParallel = 0
  /\ upFileSize = FileSizeOf(0, 0)
  /\ upBlockSize = 0

BlockInit ==
  /\ npc = "block"
  /\ optParallel = 0
  /\ loadCount = 0
  /\ avgParallel = 0
  /\ upFileSize \in UploadSizes
  /\ upBlockSize = 0

\* the two functions while the model follows something else
NmIdle ==
  /\ npc = "idle"
  /\ optParallel = 0
  /\ loadCount = 0
  /\ avgParallel = 0
  /\ upFileSize = FileSizeOf(0, 0)
  /\ upBlockSize = 0

Init == UpInit /\ DlIdle /\ ExIdle /\ CsIdle /\ TkIdle
  /\ NmIdle

Next == UpNext

Spec == Init /\ [][Next]_vars

\* every goroutine that can run is scheduled, every UploadFile call returns
FairSpec ==
  /\ Spec
  /\ WF_vars(Precreate)
  /\ WF_vars(Shift)
  /\ WF_vars(Spawn)
  /\ WF_vars(GoroutineExit)
  /\ WF_vars(Wait)
  /\ WF_vars(Final)
  /\ WF_vars(Commit)
  /\ \A p \in Parts :
       /\ WF_vars(InnerBegin(p))
       /\ WF_vars(UploadReturn(p))
       /\ WF_vars(SelectCanceled(p) \/ SelectDone(p))

\* every goroutine that can run is scheduled, but an UploadFile call need
\* not return; a select that finds muer.canceled closed time and again
\* takes that case at some time, as Go chooses among the ready cases at
\* random
CancelFairSpec ==
  /\ Spec
  /\ WF_vars(Precreate)
  /\ WF_vars(Shift)
  /\ WF_vars(Spawn)
  /\ WF_vars(GoroutineExit)
  /\ WF_vars(Wait)
  /\ WF_vars(Final)
  /\ WF_vars(Commit)
  /\ \A p \in Parts :
       /\ WF_vars(InnerBegin(p))
       /\ WF_vars(SelectCanceled(p) \/ SelectDone(p))
       /\ SF_vars(SelectCanceled(p))

\* the capacities of updateInstanceStateChan: unbuffered, or a buffer of one
NotifyCaps == {0, 1}

\* upload() of a MultiUploader that has an updateInstanceStateChan
NotifyInit == UpInitWith(NotifyCaps) /\ DlIdle /\ ExIdle /\ CsIdle /\ TkIdle
  /\ NmIdle

NotifySpec == NotifyInit /\ [][UpNotifyNext]_vars

\* upload() with the queue at the close of canceled written down
UpObservedSpec == Init /\ [][UpObservedNext]_vars

\* the choice of the download plan
PlanInit == UpIdle /\ DlInit /\ ExIdle /\ CsIdle /\ TkIdle
  /\ NmIdle

PlanNext == DlNext

PlanSpec == PlanInit /\ [][PlanNext]_vars

\* calls of SelectParallel
ParallelSpecInit == UpIdle /\ ParallelInit /\ ExIdle /\ CsIdle /\ TkIdle
  /\ NmIdle

ParallelSpec == ParallelSpecInit /\ [][ExecSelectParallel]_vars

\* the probing of the mirrors
ProbeSpecInit == UpIdle /\ DlIdle /\ ProbeInit /\ CsIdle /\ TkIdle
  /\ NmIdle

ProbeSpec == ProbeSpecInit /\ [][ProbeNext]_vars

\* one download run, from download() to the result of Run
RunInit == UpIdle /\ DlHold /\ ExecInit /\ CsIdle /\ TkIdle
  /\ NmIdle

RunSpec == RunInit /\ [][ExecNext]_vars

\* download runs with repeated calls of Cancel
CancelInit ==
  /\ UpIdle
  /\ DlHoldWith(CancelBlocks, CancelParallels)
  /\ ExecInitWith(CancelSizes, {MaxCancels})
  /\ CsIdle
  /\ TkIdle
  /\ NmIdle

CancelSpec == CancelInit /\ [][ExecNext]_vars

\* calls of SelectCacheSize
CacheInit == UpIdle /\ DlIdle /\ ExIdle /\ CsInit /\ TkIdle
  /\ NmIdle

CacheSpec == CacheInit /\ [][DoSelectCacheSize]_vars

\* calls of AverageParallel
AverageSpecInit ==
  UpIdle /\ DlIdle /\ ExIdle /\ CsIdle /\ TkIdle /\ AverageInit

AverageSpec == AverageSpecInit /\ [][DoAverageParallel]_vars

\* calls of getBlockSize
BlockSpecInit == UpIdle /\ DlIdle /\ ExIdle /\ CsIdle /\ TkIdle /\ BlockInit

BlockSpec == BlockSpecInit /\ [][DoGetBlockSize]_vars

\* one call of RunDownload
TaskInit == UpIdle /\ DlIdle /\ ExIdle /\ CsIdle /\ TkInit
  /\ NmIdle

TaskSpec == TaskInit /\ [][TkNext]_vars

\* one call of RunDownload for a single file
UnitSpecInit == UpIdle /\ DlIdle /\ ExIdle /\ CsIdle /\ UnitInit
  /\ NmIdle

UnitSpec == UnitSpecInit /\ [][TkNext]_vars

(***************************************************************************)
(* Properties of MultiUploader.upload                                      *)
(***************************************************************************)

\* UploadFile calls that have started and not returned
InFlight == {p \in Parts : ipc[p] = "uploading"}

\* the step in which UploadFile is called for part p
UploadFileCalled(p) == ipc[p] = "begin" /\ ipc'[p] = "uploading"

\* the part goroutine of p returns in this step
GoroutineReturns(p) == gpc[p] = "select" /\ gpc'[p] = "none"

\* C1: CommitFile is invoked only in a state where the uploadDone flag of
\* every worker of muer.workers is true, whatever the interleaving of
\* completions, failures and cancellation.
C1_CommitOnlyWhenAllDone ==
  (mpc = "commit" \/ commitCalls > 0) => \A w \in Parts : uploadDone[w]

C1_Witness ==
  /\ commitCalls = 1
  /\ \E p \in Parts : cursor[p] = "inside"

\* C2: when the queue drains without cancellation and a part still has
\* uploadDone false, upload returns a non-nil error and CommitFile is not
\* invoked.
C2_DrainedWithoutSuccessFails ==
  (mpc = "done" /\ ~canceled /\ precreateRet = "nil"
     /\ \E w \in Parts : ~uploadDone[w])
  => (result # "nil" /\ commitCalls = 0)

\* C3: a terminal error of any part cancels the job: muer.canceled is closed
\* exactly once however many parts report one, every part goroutine that left
\* its UploadFile behind has cancelled its context, upload returns a non-nil
\* error and CommitFile is never invoked.
C3_TerminalErrorCancelsJob ==
  /\ closeCount <= 1
  /\ canceled <=> closeCount = 1
  /\ termCount > 0 => (mpc # "commit" /\ commitCalls = 0)
  /\ (termCount > 0 /\ mpc \in {"final", "done"}) => canceled
  /\ (termCount > 0 /\ mpc = "done") => result \in {"ErrTerminal", "Canceled"}
  /\ \A p \in Parts :
       (gpc[p] = "none" /\ ipc[p] \in {"begin", "uploading"})
       => (canceled /\ ctxCancelled[p])

C3_Witness ==
  /\ termCount >= 2
  /\ mpc = "done"
  /\ closeCount = 1
  /\ \E p \in Parts : ipc[p] = "uploading" /\ ctxCancelled[p]

\* C4: per-part retries are bounded: upload eventually returns, also when
\* UploadFile fails with a non-terminal error on every attempt of a part.
C4_UploadEventuallyReturns == <>(mpc = "done")

C6_ProtocolOrder ==
  /\ precreateCalls <= 1
  /\ (mpc # "precreate") => precreateCalls = 1
  /\ (uploadCalled \/ \E p \in Parts : gpc[p] # "none" \/ ipc[p] # "none")
     => (precreateCalls = 1 /\ precreateRet = "nil")
  /\ precreateRet = "ErrPrecreate"
     => (mpc = "done" /\ result = "ErrPrecreate" /\ ~uploadCalled
         /\ commitCalls = 0)
  /\ commitCalls <= 1
  /\ (mpc = "commit" \/ commitCalls > 0)
     => (wgCount = 0 /\ Len(uploadDeque) = 0
         /\ \A p \in Parts : gpc[p] = "none" /\ ipc[p] = "none")

C6_Witness ==
  /\ precreateCalls = 1
  /\ uploadCalled
  /\ commitCalls = 1
  /\ mpc = "done"

\* C7: at every moment, also after a cancellation, the number of UploadFile
\* calls that have started and not returned is at most config.Parallel.
C7_InFlightAtMostParallel == Cardinality(InFlight) <= parallel

\* C8: UploadFile is never called for a part whose uploadDone is true, such
\* parts are not queued, and uploadDone never goes from true to false.
C8_UploadDoneSurvives ==
  /\ [](\A p \in Parts : (InDeque(p) \/ wer = p) => ~uploadDone[p])
  /\ [][\A p \in Parts : UploadFileCalled(p) => ~uploadDone[p]]_vars
  /\ [][\A p \in Parts : uploadDone[p] => uploadDone'[p]]_vars

C8_Witness ==
  /\ mpc = "done"
  /\ \E p \in Parts : uploadDone[p] /\ cursor[p] = "start"
  /\ \E q \in Parts : uploadDone[q] /\ cursor[q] = "inside"
  /\ \E r \in Parts : ~uploadDone[r] /\ cursor[r] = "inside"

(***************************************************************************)
(* Properties of the download plan                                         *)
(***************************************************************************)

\* SelectBlockSizeAndInitRangeGen has returned
BlockSizeSelected == dpc \in {"alloc", "tail", "done"}

\* no saved state: status.RangeListGen() was nil at the call
FreshPlan == Len(biiRanges) = 0

\* C9: for every totalSize > 0 and configured parallelism >= 1 the ranges
\* that successive GenRange calls return from the generator Execute sets up
\* have positive length, do not overlap pairwise, and once GenRange returns
\* nil their union is [0, totalSize).
C9_RangesPartitionFile ==
  (viaExecute /\ FreshPlan /\ totalSize > 0 /\ BlockSizeSelected
     /\ initErr = "nil")
  => /\ \A i \in 1..Len(drawn) :
          /\ drawn[i].Begin < drawn[i].End
          /\ drawn[i].Begin = (IF i = 1 THEN 0 ELSE drawn[i - 1].End)
          /\ drawn[i].End <= totalSize
     /\ \A i, j \in 1..Len(drawn) :
          i < j => drawn[i].End <= drawn[j].Begin
     /\ dpc = "done"
        => (Len(drawn) > 0 /\ drawn[Len(drawn)].End = totalSize)

C9_Witness ==
  /\ viaExecute /\ FreshPlan /\ initErr = "nil"
  /\ dpc = "done"
  /\ cfgMode = "BlockSize"
  /\ dlParallel > 1
  /\ Len(drawn) > dlParallel
  /\ drawn[Len(drawn)].End = totalSize
  /\ drawn[Len(drawn)].End - drawn[Len(drawn)].Begin < blockSize

\* C10: without a resumed generator and not in single-stream mode, BlockSize
\* mode returns blockSize = min(config.BlockSize, totalSize/parallel + 1)
\* and an unknown mode returns ErrUnknownRangeGenMode; single-stream mode
\* returns -1 and installs no generator.
C10_BlockSizeChoice ==
  BlockSizeSelected
  => /\ (FreshPlan /\ ~single /\ cfgMode = "BlockSize")
        => /\ blockSize = Min(cfgBlockSize, totalSize \div dlParallel + 1)
           /\ initErr = "nil"
           /\ gen.mode = "BlockSize"
           /\ gen.total = totalSize
     /\ single
        => /\ blockSize = -1
           /\ initErr = "nil"
           /\ FreshPlan => gen = NoGen
     /\ (FreshPlan /\ ~single /\ cfgMode = "Unknown")
        => /\ initErr = "ErrUnknownRangeGenMode"
           /\ gen = NoGen

C10_Witness ==
  /\ BlockSizeSelected /\ FreshPlan /\ ~single /\ cfgMode = "BlockSize"
  /\ dlParallel > 1
  /\ totalSize \div dlParallel + 1 < cfgBlockSize
  /\ blockSize = totalSize \div dlParallel + 1

\* Execute has built the plan of a fresh download of the 10 MiB file with
\* config.BlockSize = 4 MiB and config.MaxParallel = 3
ExamplePlanBuilt ==
  /\ viaExecute /\ FreshPlan
  /\ totalSize = ExampleTotal
  /\ cfgBlockSize = ExampleBlock
  /\ cfgMaxParallel = 3
  /\ initErr = "nil"
  /\ dpc \in {"tail", "done"}

\* C11 as stated: for a fresh download of a 10 MiB file with block size
\* 4 MiB and parallelism 3 the plan is [0,4MiB) [4MiB,8MiB) [8MiB,10MiB).
C11_ExamplePlanAsStated ==
  ExamplePlanBuilt
  => plan = <<[Begin |-> 0, End |-> 4 * MiB],
              [Begin |-> 4 * MiB, End |-> 8 * MiB],
              [Begin |-> 8 * MiB, End |-> 10 * MiB]>>

\* C11 amended: the block size of that download is min(4 MiB, 10 MiB/3 + 1)
\* = 3495254, so in BlockSize mode the plan is [0,3495254)
\* [3495254,6990508) [6990508,10MiB); in Default mode the block is 10 MiB/3
\* and the plan is [0,3495253) [3495253,6990506) [6990506,10MiB).
C11_ExamplePlan ==
  ExamplePlanBuilt
  => /\ dlParallel = 3
     /\ cfgMode = "BlockSize"
        => /\ blockSize = 3495254
           /\ plan = <<[Begin |-> 0, End |-> 3495254],
                       [Begin |-> 3495254, End |-> 6990508],
                       [Begin |-> 6990508, End |-> ExampleTotal]>>
     /\ cfgMode = "Default"
        => /\ blockSize = 3495253
           /\ plan = <<[Begin |-> 0, End |-> 3495253],
                       [Begin |-> 3495253, End |-> 6990506],
                       [Begin |-> 6990506, End |-> ExampleTotal]>>

C11_Witness ==
  /\ ExamplePlanBuilt
  /\ cfgMode = "BlockSize"
  /\ dpc = "done"
  /\ Len(plan) = 3
  /\ plan[3].End - plan[3].Begin < blockSize

(***************************************************************************)
(* Properties of a download run                                            *)
(***************************************************************************)

\* the worker-construction loop of Execute is over
WorkerLoopDone == epc = "workers" /\ wk > Len(plan)

\* Execute has returned
ExecuteReturned == epc \in {"returned", "done"}

\* the workers of the Monitor with id k and the range of plan index k + 1
WorkersOfRange(k) ==
  {i \in 1..Len(monWorkers) :
     monWorkers[i].id = k /\ monWorkers[i].range = plan[k + 1]}

\* C12: after the worker-construction loop of Execute, for every range at
\* index k of the plan exactly one Worker with id k and that range has been
\* appended to the Monitor, whatever the download-URL calls returned.
C12_OneWorkerPerRange ==
  WorkerLoopDone
  => /\ Len(monWorkers) = Len(plan)
     /\ \A k \in 0..(Len(plan) - 1) : Cardinality(WorkersOfRange(k)) = 1

\* C13: Execute returns nil and fires the success event, for a file of
\* size > 0, only if for every range of the plan a worker assigned to that
\* range reached the success state.
C13_SuccessNeedsEveryRange ==
  (ExecuteReturned /\ fileSize > 0 /\ execErr = "nil"
     /\ EventCount("success") > 0)
  => \A k \in 0..(Len(plan) - 1) : k \in okRanges

\* Execute has passed line 924: the Monitor has its settings
MonitorSet == cancelFuncSet

\* worker i fails in this step: the Monitor respawns it or gives up
WorkerFailure(i) ==
  /\ epc = "monitor"
  /\ wst[i] = "running"
  /\ \/ wst'[i] = "failed"
     \/ (i \notin respawned /\ i \in respawned')

\* C14: Execute calls SetReloadWorker(true) iff SelectParallel returned a
\* value > 1; with parallelism 1 a worker failure ends the transfer with an
\* error, with parallelism > 1 a failed worker is respawned.
C14_ReloadIffParallel ==
  /\ [](MonitorSet => (reloadWorker <=> dlParallel > 1))
  /\ []((MonitorSet /\ dlParallel = 1) => respawned = {})
  /\ [][\A i \in 1..Len(wst) :
          (WorkerFailure(i) /\ dlParallel = 1)
          => (wst'[i] = "failed" /\ monitorErr' # "nil" /\ epc' = "result")]_vars
  /\ [][\A i \in 1..Len(wst) :
          (WorkerFailure(i) /\ dlParallel > 1 /\ i \notin respawned)
          => (wst'[i] = "running" /\ i \in respawned' /\ epc' = "monitor")]_vars

C14_Witness ==
  /\ epc = "done"
  /\ dlParallel > 1
  /\ respawned # {}
  /\ execErr = "nil"
  /\ \A i \in 1..Len(wst) : wst[i] = "success"

\* C15: removeInstanceState is called exactly once when the Monitor finishes
\* without error or when the file is zero-byte and the Monitor reports the
\* no-workers error, and zero times on every other outcome of Execute.
C15_StateRemovedOnceOnSuccess ==
  /\ removeCalls <= 1
  /\ ExecuteReturned
     => removeCalls =
          (IF MonitorSet /\ (monitorErr = "nil"
                             \/ (monitorErr = "ErrNoWokers" /\ fileSize = 0))
           THEN 1 ELSE 0)
  /\ removeCalls = 1 => (ExecuteReturned /\ diskState = AbsentState)

C15_Witness ==
  /\ ExecuteReturned
  /\ removeCalls = 1
  /\ isInstance
  /\ fileSize > 0
  /\ diskState = AbsentState

\* C16: when Cancel stops a running worker of a download of a file of size
\* > 0, Execute returns a non-nil error, does not call removeInstanceState
\* and does not fire the success event; the InstanceState stays on disk.
C16_CancelKeepsState ==
  (ExecuteReturned /\ cancelMid /\ fileSize > 0)
  => /\ execErr # "nil"
     /\ removeCalls = 0
     /\ EventCount("success") = 0
     /\ diskState # AbsentState

C16_Witness ==
  /\ ExecuteReturned
  /\ cancelMid
  /\ fileSize > 0
  /\ \E i \in 1..Len(wst) : wst[i] = "success"
  /\ \E j \in 1..Len(wst) : wst[j] = "cancelled"

\* C17: for a zero-byte file whose local file and state file can be opened, a
\* download spawns zero workers, download() returns nil, the result of the
\* unit is Succeed, and no InstanceState is created during the run.
C17_ZeroByteImmediateSuccess ==
  (epc = "done" /\ fileSize = 0 /\ dlRet # "ErrDownloadInit"
     /\ execErr \notin {"ErrInitState", "ErrUnknownRangeGenMode"})
  => /\ Len(monWorkers) = 0
     /\ dlRet = "nil"
     /\ succeed
     /\ stateCreated = 0

\* C18: when the Monitor reports the no-workers error, download() returns
\* nil iff FileSize = 0; for FileSize > 0 it returns the error, the success
\* event is not fired and the InstanceState is not removed.
C18_NoWorkersIsErrorUnlessEmpty ==
  (epc = "done" /\ MonitorSet /\ monitorErr = "ErrNoWokers")
  => /\ dlRet = "nil" <=> fileSize = 0
     /\ fileSize > 0
        => /\ dlRet = "ErrNoWokers"
           /\ execErr = "ErrNoWokers"
           /\ EventCount("success") = 0
           /\ removeCalls = 0
           /\ ~succeed
     /\ fileSize = 0 => (EventCount("success") = 1 /\ removeCalls = 1)

C18_Witness ==
  /\ epc = "done"
  /\ monitorErr = "ErrNoWokers"
  /\ fileSize > 0
  /\ Len(plan) > 1
  /\ urlFailed = 1..Len(plan)
  /\ dlRet = "ErrNoWokers"

\* Execute is between the choice of the plan and its result
PlanInUse == dpc = "run" /\ epc \in {"workers", "monitor", "result"}

\* C19: the saved InstanceState is the resume plan only if it is present and
\* its total size equals the file's size; then workers are created exactly
\* for the saved remaining ranges and no new range is generated; otherwise
\* the transfer starts fresh with a new plan over the current file size.
C19_ResumeOnlyOnMatchingState ==
  /\ PlanInUse
     => /\ isInstance <=> (diskState.kind = "saved" /\ diskState.total = fileSize)
        /\ isInstance
           => /\ plan = diskState.ranges
              /\ loopI = 0
              /\ totalSize = diskState.total
        /\ ~isInstance
           => /\ totalSize = fileSize
              /\ biiRanges = <<>>
              /\ gen.total = fileSize
              /\ Len(plan) > 0 => plan[1].Begin = 0
  /\ (WorkerLoopDone /\ isInstance)
     => /\ Len(monWorkers) = Len(diskState.ranges)
        /\ \A k \in 1..Len(monWorkers) :
             monWorkers[k].range = diskState.ranges[k]
        /\ gen = diskState.gen

(***************************************************************************)
(* Properties of checkLoadBalancers                                        *)
(***************************************************************************)

\* C20: a mirror is in the list of checkLoadBalancers only if its probe
\* returned no transport error, a status of the class 2xx, and a content
\* length equal to the file's size.
C20_OnlyValidMirrorsAccepted ==
  \A i \in 2..lbLen :
    /\ ~lbOut[lbArr[i]].err
    /\ lbOut[lbArr[i]].class = 2
    /\ lbOut[lbArr[i]].lenOk

\* the mirrors whose probe passed every check and reached the append
AcceptedMirrors ==
  {m \in Mirrors : lbpc[m] = "done" /\ ProbeAccepts(lbOut[m])
                     /\ lbOut[m].hasReq}

\* C21: whatever the interleaving of the probes, the list that
\* checkLoadBalancers returns starts with the primary entry and holds every
\* accepted mirror exactly once, and at most 10 probes run at a time.
C21_AcceptedMirrorsKeptOnce ==
  /\ Cardinality(ProbesRunning) <= LbGateSize
  /\ epc = "state"
     => /\ lbLen >= 1
        /\ LbList[1] = 0
        /\ \A m \in AcceptedMirrors :
             Cardinality({i \in 1..lbLen : LbList[i] = m}) = 1

(***************************************************************************)
(* Properties of Downloader.Cancel                                         *)
(***************************************************************************)

\* a step of Cancel: nothing else uses up a call of the caller
CancelStep == cancelsLeft' = cancelsLeft - 1

\* the download run apart from the cancelled flag of the context
transferVars ==
  <<upVars, dlVars, epc, fileSize, mirrors, lbNext, lbpc, lbOut, lbSeen,
    lbArr, lbLen, diskState, stateCreated, isInstance, wk, urlFailed,
    monWorkers, wst, respawned, onPlan, okRanges, reloadWorker,
    cancelFuncSet, cancelMid, monitorErr, execErr, removeCalls, events,
    dlRet, noCheck, checkErr, succeed>>

\* C22: a call of Cancel before Execute has created the monitor changes
\* nothing; a call during or after Execute changes nothing but the
\* cancelled flag of the context, which it sets if the cancel function is
\* stored, and a call that finds the context cancelled changes nothing at
\* all, so that any number of calls leave what one call leaves.
C22_CancelIdempotent ==
  [][CancelStep
       => /\ UNCHANGED transferVars
          /\ (~MonitorCreated \/ ctxDone \/ ~cancelFuncSet)
             => UNCHANGED ctxDone
          /\ (MonitorCreated /\ cancelFuncSet) => ctxDone']_vars

\* Cancel was called twice by the time the workers run, and the context is
\* cancelled
C22_Witness ==
  /\ cancelsLeft = MaxCancels - 2
  /\ epc = "monitor"
  /\ ctxDone

(***************************************************************************)
(* Properties of SelectCacheSize                                           *)
(***************************************************************************)

\* C23: the result of SelectCacheSize is the block size when the block size
\* is positive and below the configured cache size, and the configured
\* cache size otherwise, also for the block size -1 of a single stream; it
\* never exceeds the configured cache size.
C23_CacheSizeClamped ==
  cspc = "done"
    => /\ (argBlockSize > 0 /\ confCacheSize > argBlockSize)
            => cacheSize = argBlockSize
       /\ ~(argBlockSize > 0 /\ confCacheSize > argBlockSize)
            => cacheSize = confCacheSize
       /\ cacheSize <= confCacheSize

\* a call that clamped the cache size
C23_Witness ==
  /\ cspc = "done"
  /\ argBlockSize > 0
  /\ confCacheSize > argBlockSize
  /\ cacheSize = argBlockSize

(***************************************************************************)
(* Properties of the TaskExecutor and of DownloadTaskUnit                  *)
(***************************************************************************)

\* how often x is in the sequence q
Count(q, x) == Cardinality({i \in 1..Len(q) : q[i] = x})

UnitIds == 1..Len(units)

\* the attempts of the unit u that failed
FailedAttempts(u) ==
  Count(units[u].log, "OnRetry") + Count(units[u].log, "OnFailed")

\* C24: a unit that failed with NeedRetry set k < maxRetry times and then
\* succeeded has k+1 recorded attempts: Run was called k+1 times, OnRetry k
\* times and OnSuccess once, and the unit is not in the failed collection.
C24_RetriedThenSucceeded ==
  \A u \in UnitIds :
    LET k == Count(units[u].log, "OnRetry")
    IN (units[u].state = "succeeded" /\ k < units[u].maxRetry)
         => /\ units[u].retry = k
            /\ Count(units[u].log, "Run") = k + 1
            /\ Count(units[u].log, "OnSuccess") = 1
            /\ Count(units[u].log, "OnFailed") = 0
            /\ Count(failedDeque, u) = 0

\* a unit succeeded on a retry
C24_Witness ==
  \E u \in UnitIds :
    /\ units[u].state = "succeeded"
    /\ Count(units[u].log, "OnRetry") >= 1
    /\ Count(units[u].log, "OnRetry") < units[u].maxRetry

C26_OneHookThenComplete ==
  \A u \in UnitIds :
    LET log == units[u].log
    IN /\ \A i \in 1..Len(log) :
            /\ i % 3 = 1 => log[i] = "Run"
            /\ i % 3 = 2 => log[i] \in {"OnRetry", "OnSuccess", "OnFailed"}
            /\ i % 3 = 0 => log[i] = "OnComplete"
       /\ Len(log) % 3 = (IF tpc = "settle" /\ cur = u THEN 1 ELSE 0)

\* a unit went through a retry and a final failure
C26_Witness ==
  \E u \in UnitIds :
    /\ Count(units[u].log, "OnRetry") >= 1
    /\ Count(units[u].log, "OnFailed") = 1
    /\ Count(units[u].log, "OnComplete") >= 2

\* C27: the ids Append hands out are unique and strictly increasing in the
\* order of the calls, also for the units a running unit appends, and when
\* Execute has returned every unit has been run.
C27_IdsIncreaseAndAllRun ==
  /\ \A u, v \in UnitIds : u < v => units[u].id < units[v].id
  /\ tpc = "done" => \A u \in UnitIds : Count(units[u].log, "Run") >= 1

\* Execute has returned after a directory unit appended a child
C27_Witness ==
  /\ tpc = "done"
  /\ \E u \in UnitIds : units[u].parent # 0 /\ units[u].parent < u
  /\ Len(units) >= 2

\* a call of Run on the unit the executor has taken
RunStep == tpc = "run" /\ tpc' = "settle"

\* the units Execute is through with
Settled == {u \in UnitIds : units[u].state \in {"succeeded", "failed"}}

ChildrenOf(d, k) ==
  {c \in UnitIds : units[c].parent = d /\ units[c].file = k}

\* C30: Run of a directory unit appends exactly one child for every entry
\* of the file list that is no folder and none for a folder, each child
\* with the file's path and info and the parent's maxRetry, and the
\* directory unit then reports success; over all its attempts no file is
\* appended twice.
C30_OneChildPerFile ==
  \A d \in UnitIds :
    /\ \A k \in 1..MaxFiles + 1 :
         Cardinality(ChildrenOf(d, k)) =
           (IF k <= Len(units[d].fileList) /\ ~units[d].fileList[k]
            THEN 1 ELSE 0)
    /\ \A c \in UnitIds :
         units[c].parent = d
           => /\ d < c
              /\ units[d].folder
              /\ ~units[c].folder
              /\ units[c].hasInfo
              /\ units[c].maxRetry = units[d].maxRetry
              /\ \/ units[d].state = "succeeded"
                 \/ (tpc = "settle" /\ cur = d /\ runResult.Succeed)

\* a directory unit was retried, then found a folder and a file and
\* appended the file
C30_Witness ==
  \E d \in UnitIds :
    /\ units[d].folder
    /\ units[d].retry >= 1
    /\ units[d].state = "succeeded"
    /\ Len(units[d].fileList) = 2
    /\ units[d].fileList[1]
    /\ Cardinality(ChildrenOf(d, 2)) = 1

\* C31: with NoCheck set, a file download that completes without error is
\* reported as succeeded: the result of Run has Succeed true, and the
\* executor takes the unit as succeeded, neither retrying it nor putting it
\* into the failed collection.
C31_NoCheckDownloadSucceeds ==
  (/\ tpc = "settle"
   /\ units[cur].noCheck
   /\ ~units[cur].folder
   /\ units[cur].downloads >= 1
   /\ runResult.Err = "nil")
    => /\ runResult.Succeed
       /\ Hook(runResult,
               AttemptsRemain(units[cur].retry, units[cur].maxRetry))
            = "OnSuccess"

\* C32: once a terminal error has closed the cancel signal, UploadFile is
\* not invoked for any part that was waiting in the upload queue at that
\* moment.
C32_NoUploadAfterCancel ==
  \A p \in queuedAtClose : ipc[p] # "uploading"

BeingUploaded(p) == gpc[p] = "select" \/ ipc[p] \in {"begin", "uploading"}

\* C34: a part is never processed twice at once: it is not both waiting in
\* the upload queue and being uploaded, the queue never holds it twice, and
\* no UploadFile call for it starts while an earlier one for it has not
\* returned (a part newly shifted from the queue has no goroutine at work
\* on it).
C34_PartProcessedOnceAtATime ==
  \A p \in Parts :
    /\ Cardinality({i \in 1..Len(uploadDeque) : uploadDeque[i] = p}) <= 1
    /\ ~(InDeque(p) /\ BeingUploaded(p))
    /\ wer = p => ~InDeque(p) /\ ~BeingUploaded(p)

\* a part is back in the queue after a non-terminal error while the round
\* is still running and, after a cancellation, another part's UploadFile
\* call goes on without its part goroutine
C34_Witness ==
  /\ mpc = "wait"
  /\ canceled
  /\ \E p \in Parts : InDeque(p) /\ cursor[p] = "start"
  /\ \E q \in Parts : ipc[q] = "uploading" /\ gpc[q] = "none"

\* C35: the notification sent after a part's upload never blocks the part's
\* goroutine, in every interleaving and also when nothing receives from
\* updateInstanceStateChan: a goroutine that has come to the send finds
\* room in the channel.
C35_NotificationNeverBlocks ==
  \A p \in Parts : gpc[p] = "send" => updateChanLen < updateChanCap

\* C36: SelectParallel returns 1 in single-stream mode, the number of saved
\* ranges when resuming from a non-empty range list, and otherwise
\* config.MaxParallel, reduced to totalSize/MinParallelSize + 1 when it
\* exceeds totalSize/MinParallelSize; the result is at least 1 for every
\* input and at most max(1, config.MaxParallel) for a fresh multi-stream
\* plan.
C36_SelectParallelValue ==
  dpc = "block"
    => LET q == totalSize \div MinParallelSize
           fresh == IF cfgMaxParallel > q THEN q + 1 ELSE cfgMaxParallel
           atLeastOne(n) == IF n < 1 THEN 1 ELSE n
       IN /\ dlParallel >= 1
          /\ single => dlParallel = 1
          /\ (~single /\ biiRanges # <<>>) => dlParallel = Len(biiRanges)
          /\ (~single /\ biiRanges = <<>>)
               => /\ dlParallel = atLeastOne(fresh)
                  /\ dlParallel <= atLeastOne(cfgMaxParallel)

\* a fresh multi-stream plan for a file of more than MinParallelSize bytes
\* whose MaxParallel was reduced
C36_Witness ==
  /\ dpc = "block"
  /\ ~single
  /\ biiRanges = <<>>
  /\ totalSize >= MinParallelSize
  /\ cfgMaxParallel > totalSize \div MinParallelSize + 1
  /\ dlParallel = totalSize \div MinParallelSize + 1

\* Execute returned before the plan was made: initInstanceState failed or
\* the range mode is unknown
InitFailed == execErr \in {"ErrInitState", "ErrUnknownRangeGenMode"}

\* C37: an Execute that gets past initialization triggers execute, then
\* success only if the transfer succeeded or the file has zero bytes, then
\* finish, which comes exactly once and last on success and on failure; an
\* Execute whose initialization fails returns the error, triggers no event
\* and starts no worker.
C37_LifecycleEvents ==
  /\ events \in {<<>>, <<"execute">>, <<"execute", "finish">>,
                  <<"execute", "success", "finish">>}
  /\ epc \in {"monitor", "result"} => events = <<"execute">>
  /\ execErr # "running"
       => IF InitFailed
          THEN /\ events = <<>>
               /\ monWorkers = <<>>
               /\ wst = <<>>
          ELSE events =
                 (IF monitorErr = "nil"
                       \/ (monitorErr = "ErrNoWokers" /\ fileSize = 0)
                  THEN <<"execute", "success", "finish">>
                  ELSE <<"execute", "finish">>)

\* Execute has returned the error of a transfer that workers were started
\* for and that failed
C37_Witness ==
  /\ epc = "returned"
  /\ ~InitFailed
  /\ monWorkers # <<>>
  /\ monitorErr # "nil"
  /\ execErr = monitorErr
  /\ events = <<"execute", "finish">>

C39_AverageParallel ==
  npc = "averaged"
    => /\ avgParallel >= 1
       /\ loadCount < 1 => avgParallel = 1
       /\ (loadCount >= 1 /\ optParallel < loadCount) => avgParallel = 1
       /\ (loadCount >= 1 /\ optParallel >= loadCount)
            => /\ avgParallel * loadCount <= optParallel
               /\ optParallel < (avgParallel + 1) * loadCount

\* the parallelism is shared among several files and does not divide evenly
C39_Witness ==
  /\ npc = "averaged"
  /\ loadCount >= 2
  /\ avgParallel >= 2
  /\ avgParallel * loadCount < optParallel

\* C40: for every file size getBlockSize returns a block size of at least
\* MinUploadBlockSize that splits the file into at most 999 parts; the
\* number of parts ceil(fileSize / blockSize) is at most 999 iff
\* fileSize / 999 is below blockSize, or equal to it with no remainder.
C40_BlockSizeBounds ==
  npc = "sized"
    => /\ upBlockSize >= MinUploadBlocksMiB * MiB
       /\ \/ DivParts(upFileSize).quot < upBlockSize
          \/ /\ DivParts(upFileSize).quot = upBlockSize
             /\ DivParts(upFileSize).rem = 0

====
